---- MODULE Spec2Model ----
(***************************************************************************)
(* A model of the I90 ingestion code:                                      *)
(*   - the merge-on-write parquet store                                    *)
(*       (src/utilidades/storage_file_utils.py),                           *)
(*   - the daily I90 extraction (src/extract/descargador_i90.py).          *)
(*                                                                         *)
(* A DataFrame is a sequence of rows, a row is a record of its columns.    *)
(* A timestamp column value carries its dtype, because a hive-partitioned  *)
(* parquet dataset gives a partition column back as text.                  *)
(***************************************************************************)
EXTENDS Integers, Sequences, FiniteSets, TLC

VARIABLES
    writer,         \* which store class the behaviour exercises
    dataset_type,   \* the dataset_type argument of every write of the behaviour
    partition,      \* the persisted partition the writes target
    call,           \* the last store call: operation, argument, outcome
    wpc,            \* concurrent writers: position of each writer
    wdf,            \* concurrent writers: the df argument of each writer
    wexisting,      \* concurrent writers: the existing_df each writer has read
    tipo_dia,       \* day classification of the day being extracted
    hoja,           \* the I90 sheet read for the day
    df_mercados,    \* the market table handed to process_sheet_v1
    sheet_call,     \* the last process_sheet_v1 call and what it returned
    lista_errores,  \* the error table: the sheets flagged for each day
    files,          \* the temporary files on disk
    i90,            \* the get_i90_data call under way and where it stands
    volumenes_call, \* the last get_volumenes call and what it returned
    raw_dir,        \* the CSV files of the raw directory
    processed_files,\* the parquet files of the processed directory, by file name
    parquet_call    \* the last call of parquets_procesamiento.py and how it ended

storeVars == <<writer, dataset_type, partition, call>>
concVars == <<wpc, wdf, wexisting>>
sheetVars == <<tipo_dia, hoja, df_mercados, sheet_call>>
extractVars == <<lista_errores, files, i90, volumenes_call>>
csvVars == <<raw_dir, processed_files, parquet_call>>
vars == <<writer, dataset_type, partition, call, wpc, wdf, wexisting,
          tipo_dia, hoja, df_mercados, sheet_call,
          lista_errores, files, i90, volumenes_call,
          raw_dir, processed_files, parquet_call>>

(***************************************************************************)
(* Bounds and input domains.                                               *)
(***************************************************************************)
MaxRows == 2            \* longest DataFrame handed to one write
MaxConcRows == 1        \* longest DataFrame of a concurrent writer
MaxSheetRows == 2       \* most rows of an I90 sheet
MaxMalformedRows == 1   \* most rows of a sheet with a period column off the grid
MaxCsvRows == 2         \* most rows of a CSV file or of a frame handed to process_and_save_parquet
MaxCsvFiles == 2        \* most CSV files in the raw directory

Units == <<"UP1", "UP2">>
Technologies == <<"Eolica", "Solar">>
Indicators == <<600, 612>>

\* the rows the frames are drawn from, as (instant, index of the value of the
\* second key column, valor): one key with two values, a second key that
\* differs from it in the instant only, a third in the second column only
RowGrid == {<<1, 1, 10>>, <<1, 1, 20>>, <<2, 1, 10>>, <<1, 2, 10>>}

Timestamp(t) == [dtype |-> "datetime64", t |-> t]
PartitionText(t) == [dtype |-> "str", t |-> t]

\* storage_file_utils.py:132
valid_types == {"volumenes_i90", "volumenes_i3", "precios", "ingresos"}

\* 'demanda' is the unrecognised dataset type of the docstring at line 383
DatasetTypes == valid_types \cup {"demanda"}

\* A row of a series of the given dataset type: the second key column of the
\* type takes its k-th value, the key columns of the other types are constant.
SeriesRow(dt, t, k, v) ==
    [datetime_utc |-> Timestamp(t),
     mercado |-> "terciaria",
     UP |-> IF dt = "volumenes_i90" THEN Units[k] ELSE Units[1],
     tecnologia |-> IF dt = "volumenes_i3" THEN Technologies[k] ELSE Technologies[1],
     indicador_id |-> IF dt \in {"volumenes_i90", "volumenes_i3"}
                      THEN Indicators[1] ELSE Indicators[k],
     valor |-> v]

SeriesRows(dt) == {SeriesRow(dt, g[1], g[2], g[3]) : g \in RowGrid}

RECURSIVE SeqsUpTo(_, _)
SeqsUpTo(S, n) ==
    IF n = 0 THEN {<<>>}
    ELSE LET shorter == SeqsUpTo(S, n - 1)
         IN shorter \cup {Append(s, x) : s \in {q \in shorter : Len(q) = n - 1}, x \in S}

\* every DataFrame of at most MaxRows rows, per dataset type
DataFramesOf == [dt \in DatasetTypes |-> SeqsUpTo(SeriesRows(dt), MaxRows)]

DataFrames(dt) == DataFramesOf[dt]

(***************************************************************************)
(* pandas helpers.                                                         *)
(***************************************************************************)
\* DataFrame.drop_duplicates(keep='last') on all columns
RECURSIVE DropExactKeepLast(_)
DropExactKeepLast(df) ==
    IF df = <<>> THEN <<>>
    ELSE LET rest == Tail(df)
         IN (IF \E j \in 1..Len(rest) : rest[j] = Head(df) THEN <<>> ELSE <<Head(df)>>)
            \o DropExactKeepLast(rest)

\* the subset of columns drop_duplicates compares for a dataset type
SubsetKey(r, dt) ==
    IF dt = "volumenes_i90" THEN <<r.datetime_utc, r.mercado, r.UP>>
    ELSE IF dt = "volumenes_i3" THEN <<r.datetime_utc, r.mercado, r.tecnologia>>
    ELSE <<r.datetime_utc, r.indicador_id, "-">>

\* DataFrame.drop_duplicates(subset=..., keep='last')
RECURSIVE DropSubsetKeepLast(_, _)
DropSubsetKeepLast(df, dt) ==
    IF df = <<>> THEN <<>>
    ELSE LET rest == Tail(df)
         IN (IF \E j \in 1..Len(rest) : SubsetKey(rest[j], dt) = SubsetKey(Head(df), dt)
             THEN <<>> ELSE <<Head(df)>>)
            \o DropSubsetKeepLast(rest, dt)

\* DataFrame.drop_duplicates(subset=..., keep='first')
RECURSIVE DropSubsetKeepFirst(_, _)
DropSubsetKeepFirst(df, dt) ==
    IF df = <<>> THEN <<>>
    ELSE LET front == SubSeq(df, 1, Len(df) - 1)
             last == df[Len(df)]
         IN DropSubsetKeepFirst(front, dt)
            \o (IF \E j \in 1..Len(front) : SubsetKey(front[j], dt) = SubsetKey(last, dt)
                THEN <<>> ELSE <<last>>)

\* drop_duplicates with keep='first' in place of keep='last'
drop_duplicates_keep_first(df, dt) == DropSubsetKeepFirst(DropExactKeepLast(df), dt)

\* StorageFileUtils.drop_duplicates
drop_duplicates(df, dt) == DropSubsetKeepLast(DropExactKeepLast(df), dt)

\* StorageFileUtils.validate_dataset_type: TRUE when it raises ValueError
validate_dataset_type_raises(dt) == dt \notin valid_types

(***************************************************************************)
(* The persisted partition.                                                *)
(***************************************************************************)
NoPartition == [exists |-> FALSE, layout |-> "none", rows |-> <<>>]

NoCall == [op |-> "none", df |-> <<>>, outcome |-> "none",
           touched |-> FALSE, overlap |-> 0, found |-> FALSE, failure |-> "none"]

\* number of dedup keys of the dataset type that occur in both frames
Overlap(existing, df, dt) ==
    Cardinality({SubsetKey(existing[i], dt) : i \in 1..Len(existing)}
                \cap {SubsetKey(df[i], dt) : i \in 1..Len(df)})

\* the columns of a series DataFrame; it carries neither 'year' nor 'month'
SeriesColumns == {"datetime_utc", "mercado", "UP", "tecnologia", "indicador_id", "valor"}

\* write_processed_parquet lines 400-403: 'year' is added only when
\* 'datetime_utc' is missing, 'month' whenever it is missing
EnsuredColumns(cols) ==
    cols \cup (IF "datetime_utc" \notin cols THEN {"year"} ELSE {})
         \cup (IF "month" \notin cols THEN {"month"} ELSE {})

\* pd.read_parquet of a file written by DataFrame.to_parquet: values as written
ReadFile(p) == p.rows

\* pd.read_parquet of a hive-partitioned directory: the partition columns come
\* back from the directory names, a datetime_utc partition column as text
ReadDataset(p) ==
    IF p.layout = "datetime_utc"
    THEN [i \in 1..Len(p.rows) |->
            [p.rows[i] EXCEPT !.datetime_utc = PartitionText(p.rows[i].datetime_utc.t)]]
    ELSE p.rows

\* pa.Table.from_pandas raises ArrowTypeError on an object column that mixes
\* text and timestamps
FromPandasRaises(df) ==
    \E i, j \in 1..Len(df) : df[i].datetime_utc.dtype # df[j].datetime_utc.dtype

(***************************************************************************)
(* RawFileUtils.write_raw_parquet, as the result of one whole call:        *)
(* [partition, outcome, touched, overlap].                                 *)
(***************************************************************************)
\* What the file system does to the call: nothing, or the first read of the
\* partition (pd.read_parquet) or the first change of it (to_parquet,
\* shutil.rmtree, write_to_dataset) raises OSError.  The fault lasts one
\* operation: the same operation made again would succeed.
Faults == {"none", "read", "persist"}

\* the exception the file system raises inside the try block
IOFailure(found, fault) ==
    IF fault = "persist" \/ (fault = "read" /\ found) THEN "OSError" ELSE "none"

\* a handler that prints and returns
ExceptSwallow(failure, normal) == normal

\* 'except Exception as e: print(...); raise' around a block that ends
\* normally or with the exception 'failure': what leaves the handler
ExceptReraise(failure, normal) == IF failure = "none" THEN normal ELSE failure

\* lines 266-298: what the call persists, given what it found
RawPersist(found, existing, df, dt) ==
    IF found
    THEN [exists |-> TRUE, layout |-> "file",
          rows |-> drop_duplicates(existing \o df, dt)]
    ELSE [exists |-> TRUE, layout |-> "file", rows |-> df]

write_raw_parquet(p, df, dt, fault) ==
    IF validate_dataset_type_raises(dt)
    THEN [partition |-> p, outcome |-> "ValueError", touched |-> FALSE, overlap |-> 0,
          found |-> FALSE, failure |-> "none"]
    ELSE LET failure == IOFailure(p.exists, fault)
         IN [partition |-> IF failure = "none"
                           THEN RawPersist(p.exists, ReadFile(p), df, dt)
                           ELSE p,
             outcome |-> ExceptReraise(ExceptReraise(failure, "none"),
                                       IF p.exists THEN "updated" ELSE "created"),
             touched |-> TRUE,
             overlap |-> Overlap(p.rows, df, dt),
             found |-> p.exists,
             failure |-> failure]

(***************************************************************************)
(* ProcessedFileUtils.write_processed_parquet, one whole call.             *)
(***************************************************************************)
\* lines 407-448: what the call leaves in the directory and how it ends
ProcessedPersist(found, existing, current, df, dt) ==
    IF found
    THEN LET combined_df == drop_duplicates(existing \o df, dt)
         IN IF FromPandasRaises(combined_df)
            THEN [partition |-> current, outcome |-> "ArrowTypeError"]
            ELSE IF "year" \notin EnsuredColumns(SeriesColumns)
                 THEN \* shutil.rmtree has run, write_to_dataset raises
                      [partition |-> NoPartition, outcome |-> "KeyError"]
                 ELSE [partition |-> [exists |-> TRUE, layout |-> "year_month",
                                      rows |-> combined_df],
                       outcome |-> "updated"]
    ELSE \* write_to_dataset adds files to whatever the directory holds
         [partition |-> [exists |-> TRUE, layout |-> "datetime_utc",
                         rows |-> current.rows \o df],
          outcome |-> "created"]

Raised(outcome) == outcome \in {"ValueError", "ArrowTypeError", "KeyError", "OSError"}

\* the exception raised inside the try block of lines 389-448: by the read,
\* by pa.Table.from_pandas, by shutil.rmtree or by write_to_dataset
ProcessedFailure(found, r, fault) ==
    IF fault = "read" /\ found THEN "OSError"
    ELSE IF r.outcome = "ArrowTypeError" THEN "ArrowTypeError"
    ELSE IF fault = "persist" THEN "OSError"
    ELSE IF Raised(r.outcome) THEN r.outcome
    ELSE "none"

write_processed_parquet(p, df, dt, fault) ==
    IF df = <<>>
    THEN [partition |-> p, outcome |-> "skipped", touched |-> FALSE, overlap |-> 0,
          found |-> FALSE, failure |-> "none"]
    ELSE LET r == ProcessedPersist(p.exists, ReadDataset(p), p, df, dt)
             failure == ProcessedFailure(p.exists, r, fault)
         IN [partition |-> IF failure = "OSError" THEN p ELSE r.partition,
             outcome |-> ExceptReraise(ExceptReraise(failure, "none"),
                                       IF p.exists THEN "updated" ELSE "created"),
             touched |-> TRUE,
             overlap |-> Overlap(p.rows, df, dt),
             found |-> p.exists,
             failure |-> failure]

(***************************************************************************)
(* Sequential store: one caller, one call at a time.                       *)
(***************************************************************************)
Writers == {1, 2}

\* no sheet has been read and process_sheet_v1 has not been called
NoSheet == [pestana |-> 0, formato |-> "horario", encabezado |-> "texto", cabecera |-> <<>>,
            primero |-> 1, periodos |-> 0, filas |-> <<>>]

NoSheetCall == [op |-> "none", unidades |-> {}, day |-> 0, results |-> <<>>,
                hora |-> <<>>, columns |-> <<>>, frames |-> <<>>, exception |-> "none"]

SheetIdle ==
    /\ tipo_dia = "normal"
    /\ hoja = NoSheet
    /\ df_mercados = <<>>
    /\ sheet_call = NoSheetCall

\* get_i90_data and get_volumenes have not been called
NoI90Call == [pc |-> "idle", day |-> 0, sheets_of_interest |-> <<>>,
              valid_sheets |-> [bound |-> FALSE, sheets |-> <<>>],
              result |-> [kind |-> "none", sheets |-> <<>>],
              warning |-> FALSE, exception |-> "none"]

NoVolumenesCall == [op |-> "none", day |-> 0, sentidos |-> <<>>, unidades |-> {},
                    sheets_read |-> {}, results |-> <<>>, frames |-> <<>>,
                    exception |-> "none"]

ExtractIdle ==
    /\ lista_errores = {}
    /\ files = {}
    /\ i90 = NoI90Call
    /\ volumenes_call = NoVolumenesCall

\* parquets_procesamiento.py has not been called and its directories are empty
NoParquetCall == [op |-> "none", outcome |-> "none", bad_files |-> {}, saved |-> {},
                  returned |-> "none"]

CsvIdle ==
    /\ raw_dir = {}
    /\ processed_files = <<>>
    /\ parquet_call = NoParquetCall

ConcIdle ==
    /\ wpc = [w \in Writers |-> "idle"]
    /\ wdf = [w \in Writers |-> <<>>]
    /\ wexisting = [w \in Writers |-> [found |-> FALSE, rows |-> <<>>]]

Init ==
    /\ writer \in {"raw", "processed"}
    /\ dataset_type \in DatasetTypes
    /\ partition = NoPartition
    /\ call = NoCall
    /\ ConcIdle
    /\ CsvIdle
    /\ SheetIdle
    /\ ExtractIdle

WriteRawParquet(df, fault) ==
    /\ writer = "raw"
    /\ \E r \in {write_raw_parquet(partition, df, dataset_type, fault)} :
          /\ partition' = r.partition
          /\ call' = [op |-> "write_raw_parquet", df |-> df, outcome |-> r.outcome,
                      touched |-> r.touched, overlap |-> r.overlap,
                      found |-> r.found, failure |-> r.failure]
    /\ UNCHANGED <<writer, dataset_type, concVars, sheetVars, extractVars, csvVars>>

WriteProcessedParquet(df, fault) ==
    /\ writer = "processed"
    /\ \E r \in {write_processed_parquet(partition, df, dataset_type, fault)} :
          /\ partition' = r.partition
          /\ call' = [op |-> "write_processed_parquet", df |-> df, outcome |-> r.outcome,
                      touched |-> r.touched, overlap |-> r.overlap,
                      found |-> r.found, failure |-> r.failure]
    /\ UNCHANGED <<writer, dataset_type, concVars, sheetVars, extractVars, csvVars>>

(***************************************************************************)
(* RawFileUtils.delete_raw_files_older_than: the month directories of the  *)
(* raw store older than a number of months are removed.  The partition is  *)
(* the month directory of one market; its age is the days from the first   *)
(* day of its month to the clock of the call.                              *)
(***************************************************************************)
\* the calls of the clean-up: the months kept, the market filter ("None" for
\* mercado=None) and the age of the partition in days
DeleteCalls == [months : {1, 6}, mercado : {"None", "terciaria", "diario"}, age : {45, 200}]

\* lines 319-349: dir_date < cutoff_date, and shutil.rmtree whose exception is
\* printed and not raised; the partition is of the market "terciaria", the
\* mercado column of SeriesRow
delete_raw_files_older_than(p, months, mercado, age, fault) ==
    LET markets_to_check == IF mercado = "None"
                            THEN {"diario", "intra", "secundaria", "terciaria", "rr"}
                            ELSE {mercado}
        older == p.exists /\ "terciaria" \in markets_to_check /\ age > 30 * months
        failure == IF older /\ fault = "persist" THEN "OSError" ELSE "none"
        deleted == older /\ failure = "none"
    IN [partition |-> IF deleted THEN NoPartition ELSE p,
        outcome |-> IF deleted THEN "deleted" ELSE "kept",
        touched |-> older, overlap |-> 0, found |-> p.exists, failure |-> failure]

DeleteRawFilesOlderThan(months, mercado, age, fault) ==
    /\ writer = "raw"
    /\ \E r \in {delete_raw_files_older_than(partition, months, mercado, age, fault)} :
          /\ partition' = r.partition
          /\ call' = [op |-> "delete_raw_files_older_than", df |-> <<>>,
                      outcome |-> r.outcome, touched |-> r.touched, overlap |-> r.overlap,
                      found |-> r.found, failure |-> r.failure]
    /\ UNCHANGED <<writer, dataset_type, concVars, sheetVars, extractVars, csvVars>>

\* every call of the clean-up with no fault of the file system
DeleteRaw == \E c \in DeleteCalls : DeleteRawFilesOlderThan(c.months, c.mercado, c.age, "none")

Next ==
    \/ \E df \in DataFrames(dataset_type) : WriteRawParquet(df, "none")
    \/ \E df \in DataFrames(dataset_type) : WriteProcessedParquet(df, "none")
    \/ DeleteRaw

Spec == Init /\ [][Next]_vars

\* the raw store alone
InitRaw == Init /\ writer = "raw"

NextRaw ==
    \/ \E df \in DataFrames(dataset_type) : WriteRawParquet(df, "none")
    \/ DeleteRaw

SpecRaw == InitRaw /\ [][NextRaw]_vars

(***************************************************************************)
(* Two callers writing to the same partition.  A call is the steps its     *)
(* code takes on the file system: the arguments are checked, the partition *)
(* is looked up and read, the merged frame is persisted.  Nothing in       *)
(* storage_file_utils.py takes a lock, so the steps of two calls interleave*)
(* freely.                                                                 *)
(***************************************************************************)
ConcFrames(dt) == {df \in DataFrames(dt) : Len(df) <= MaxConcRows}

\* a partition an earlier write of one row has left.  write_raw_parquet
\* validates the dataset type (line 258) before it creates anything, so the
\* raw store holds no partition of a type it rejects; write_processed_parquet
\* validates nothing and leaves a partition for any type
EarlierPartitions(w, dt) ==
    IF w = "raw" /\ validate_dataset_type_raises(dt)
    THEN {}
    ELSE {[exists |-> TRUE, layout |-> IF w = "raw" THEN "file" ELSE "datetime_utc",
           rows |-> <<r>>] : r \in SeriesRows(dt)}

InitConc ==
    /\ writer \in {"raw", "processed"}
    /\ dataset_type \in DatasetTypes
    /\ partition \in {NoPartition} \cup EarlierPartitions(writer, dataset_type)
    /\ call = NoCall
    /\ ConcIdle
    /\ CsvIdle
    /\ SheetIdle
    /\ ExtractIdle

\* entry of write_raw_parquet (line 258) or write_processed_parquet (line 391)
ConcBegin(w, df) ==
    /\ wpc[w] = "idle"
    /\ wdf' = [wdf EXCEPT ![w] = df]
    /\ wpc' = [wpc EXCEPT ![w] =
                 IF writer = "raw"
                 THEN (IF validate_dataset_type_raises(dataset_type)
                       THEN "raised" ELSE "check")
                 ELSE (IF df = <<>> THEN "done" ELSE "check")]
    /\ UNCHANGED <<storeVars, wexisting, sheetVars, extractVars, csvVars>>

\* lines 266-269 (raw) and 407-411 (processed): look the partition up, read it
ConcCheck(w) ==
    /\ wpc[w] = "check"
    /\ wexisting' = [wexisting EXCEPT ![w] =
                       [found |-> partition.exists,
                        rows |-> IF writer = "raw" THEN ReadFile(partition)
                                 ELSE ReadDataset(partition)]]
    /\ wpc' = [wpc EXCEPT ![w] = "persist"]
    /\ UNCHANGED <<storeVars, wdf, sheetVars, extractVars, csvVars>>

\* lines 272-298 (raw) and 414-448 (processed): merge what was read, persist
ConcPersist(w) ==
    /\ wpc[w] = "persist"
    /\ IF writer = "raw"
       THEN /\ partition' = RawPersist(wexisting[w].found, wexisting[w].rows,
                                       wdf[w], dataset_type)
            /\ wpc' = [wpc EXCEPT ![w] = "done"]
       ELSE \E r \in {ProcessedPersist(wexisting[w].found, wexisting[w].rows,
                                       partition, wdf[w], dataset_type)} :
               /\ partition' = r.partition
               /\ wpc' = [wpc EXCEPT ![w] = IF Raised(r.outcome) THEN "raised" ELSE "done"]
    /\ UNCHANGED <<writer, dataset_type, call, wdf, wexisting, sheetVars, extractVars, csvVars>>

NextConc ==
    \/ \E w \in Writers : \E df \in ConcFrames(dataset_type) : ConcBegin(w, df)
    \/ \E w \in Writers : ConcCheck(w)
    \/ \E w \in Writers : ConcPersist(w)

SpecConc == InitConc /\ [][NextConc]_vars

(***************************************************************************)
(* The store on a file system that can fail: one caller, a partition that  *)
(* an earlier write may have left, and in each call at most one operation  *)
(* on the partition that raises.                                           *)
(***************************************************************************)
InitFault ==
    /\ writer \in {"raw", "processed"}
    /\ dataset_type \in DatasetTypes
    /\ partition \in {NoPartition} \cup EarlierPartitions(writer, dataset_type)
    /\ call = NoCall
    /\ ConcIdle
    /\ CsvIdle
    /\ SheetIdle
    /\ ExtractIdle

\* the same frames with the datetime_utc column as text, as a caller that read
\* them back from the processed store holds them
TextFrames(dt) ==
    {[i \in 1..Len(df) |-> [df[i] EXCEPT !.datetime_utc = PartitionText(df[i].datetime_utc.t)]] :
        df \in ConcFrames(dt)}

NextFault ==
    \/ \E df \in ConcFrames(dataset_type) : \E fault \in Faults : WriteRawParquet(df, fault)
    \/ \E df \in ConcFrames(dataset_type) \cup TextFrames(dataset_type) : \E fault \in Faults :
          WriteProcessedParquet(df, fault)
    \/ \E c \in DeleteCalls : \E fault \in Faults :
          DeleteRawFilesOlderThan(c.months, c.mercado, c.age, fault)

SpecFault == InitFault /\ [][NextFault]_vars

(***************************************************************************)
(* Properties of the store.                                                *)
(***************************************************************************)
\* the uniqueness key the specification gives each dataset type
DatasetKey(r, dt) ==
    IF dt = "volumenes_i90" THEN <<r.datetime_utc.t, r.mercado, r.UP>>
    ELSE IF dt = "volumenes_i3" THEN <<r.datetime_utc.t, r.mercado, r.tecnologia>>
    ELSE <<r.datetime_utc.t, "-", r.indicador_id>>

KeysOf(df, dt) == {DatasetKey(df[i], dt) : i \in 1..Len(df)}

UniqueUnderKey(df, dt) ==
    \A i, j \in 1..Len(df) : DatasetKey(df[i], dt) = DatasetKey(df[j], dt) => i = j

\* C1: after any sequence of store writes to one partition, the first write
\* included, the persisted rows are unique under the key of the dataset type:
\* (datetime_utc, mercado, UP) for 'volumenes_i90', (datetime_utc,
\* indicador_id) for 'precios'.
C1_PartitionUniqueUnderKey ==
    (dataset_type \in {"volumenes_i90", "precios"} /\ partition.exists)
        => UniqueUnderKey(partition.rows, dataset_type)

\* C2: store writes are idempotent: a write of the rows the previous call has
\* just written succeeds, as the previous call did, and leaves the persisted
\* partition as the previous call left it.
C2_WriteTwiceIsWriteOnce ==
    [][(dataset_type \in valid_types /\ call.op # "none" /\ call'.df = call.df)
          => (/\ ~Raised(call.outcome)
              /\ ~Raised(call'.outcome)
              /\ partition' = partition)]_vars

\* the index of the last row of s with key k, 0 when there is none
RECURSIVE LastIndexOf(_, _, _, _)
LastIndexOf(s, k, dt, n) ==
    IF n = 0 THEN 0
    ELSE IF DatasetKey(s[n], dt) = k THEN n
    ELSE LastIndexOf(s, k, dt, n - 1)

\* out is s with, of the rows sharing a key, only the last one kept, in the
\* order of s
IsKeepLastOf(out, s, dt) ==
    /\ \A i \in 1..Len(out) :
          \E li \in {LastIndexOf(s, DatasetKey(out[i], dt), dt, Len(s))} :
             /\ li > 0
             /\ out[i] = s[li]
             /\ i < Len(out)
                   => li < LastIndexOf(s, DatasetKey(out[i + 1], dt), dt, Len(s))
    /\ \A j \in 1..Len(s) :
          \E i \in 1..Len(out) : DatasetKey(out[i], dt) = DatasetKey(s[j], dt)

\* every row of out whose key occurs in df is the last row of df with that key
IncomingWins(out, df, dt) ==
    \A i \in 1..Len(out) :
       \E li \in {LastIndexOf(df, DatasetKey(out[i], dt), dt, Len(df))} :
          li > 0 => out[i] = df[li]

\* C3: a write to a partition that does not exist persists exactly the
\* incoming rows; a write to an existing partition persists existing-then-
\* incoming deduplicated by the key of the dataset type with keep-last, so a
\* key present in both is persisted with its (last) incoming row.
C3_CreateOrMergeKeepLast ==
    [][(call'.op = "write_raw_parquet" /\ ~Raised(call'.outcome))
          => IF partition.exists
             THEN \E s \in {partition.rows \o call'.df} :
                     /\ IsKeepLastOf(partition'.rows, s, dataset_type)
                     /\ IncomingWins(partition'.rows, call'.df, dataset_type)
             ELSE partition'.rows = call'.df /\ partition'.exists]_vars

\* a raw write has merged into an existing partition a frame that shares a key
\* with it, and a row of the partition that the frame does not hold is kept
C3_Witness ==
    /\ call.op = "write_raw_parquet"
    /\ call.outcome = "updated"
    /\ call.overlap > 0
    /\ \E i \in 1..Len(partition.rows) :
          \A j \in 1..Len(call.df) : call.df[j] # partition.rows[i]

\* C4: a store write called with a dataset_type outside the recognised set
\* raises a validation error before it reads or writes any partition.
C4_UnknownTypeRejected ==
    (dataset_type \notin valid_types /\ call.op # "none")
        => (call.outcome = "ValueError" /\ ~call.touched /\ ~partition.exists)

\* C5: once two concurrent writes of frames with disjoint keys have both
\* completed, the partition holds the rows of both.
C5_NoLostUpdate ==
    ((\A w \in Writers : wpc[w] = "done" /\ wdf[w] # <<>>)
       /\ KeysOf(wdf[1], dataset_type) \cap KeysOf(wdf[2], dataset_type) = {})
        => \A w \in Writers : \A i \in 1..Len(wdf[w]) :
              \E j \in 1..Len(partition.rows) :
                 partition.rows[j] = wdf[w][i]

(***************************************************************************)
(* The time grid.  process_sheet_v1 and get_volumenes hand every melted    *)
(* row to ajuste_horario, ajuste_quinceminutal or                          *)
(* ajuste_quinceminutal_a_horario; the three are methods of the downloader *)
(* whose bodies live outside src/, so they follow section 4.1 of the       *)
(* specification.  A time of day is the minute of the day it starts at.    *)
(***************************************************************************)
TransitionHour == 2     \* the local hour a clock change skips or repeats

MappingError == -1      \* what the mapper signals for a period off the grid

DayClassifications == {"normal", "short", "long"}

\* the signed hour shift of a day: its transition-date entry, 0 on other days
hour_offset(day_classification) ==
    IF day_classification = "short" THEN 1
    ELSE IF day_classification = "long" THEN -1
    ELSE 0

\* how many hours the day has
HoursOfDay(is_special_date, tipo_cambio_hora) ==
    IF is_special_date THEN 24 - tipo_cambio_hora ELSE 24

\* the local hour of the h-th hour of the day, h counted from 0
ShiftHour(h, is_special_date, tipo_cambio_hora) ==
    IF ~is_special_date THEN h
    ELSE IF tipo_cambio_hora > 0
         THEN (IF h >= TransitionHour THEN h + tipo_cambio_hora ELSE h)
         ELSE (IF h > TransitionHour THEN h + tipo_cambio_hora ELSE h)

\* hourly grid: period p is the p-th hour of the day
ajuste_horario(periodo, is_special_date, tipo_cambio_hora) ==
    IF periodo \notin 1..HoursOfDay(is_special_date, tipo_cambio_hora)
    THEN MappingError
    ELSE 60 * ShiftHour(periodo - 1, is_special_date, tipo_cambio_hora)

\* quarter-hourly grid collapsed to hours: four periods to the hour
ajuste_quinceminutal_a_horario(periodo, is_special_date, tipo_cambio_hora) ==
    IF periodo \notin 1..(4 * HoursOfDay(is_special_date, tipo_cambio_hora))
    THEN MappingError
    ELSE 60 * ShiftHour((periodo - 1) \div 4, is_special_date, tipo_cambio_hora)

\* quarter-hourly grid kept: the hour as above, the quarter within it
ajuste_quinceminutal(periodo, is_special_date, tipo_cambio_hora) ==
    IF periodo \notin 1..(4 * HoursOfDay(is_special_date, tipo_cambio_hora))
    THEN MappingError
    ELSE 60 * ShiftHour((periodo - 1) \div 4, is_special_date, tipo_cambio_hora)
         + 15 * ((periodo - 1) % 4)

(***************************************************************************)
(* I90 sheets.  A sheet is its number, the granularity of its period       *)
(* columns, how they are headed (by integers counted from the heading of   *)
(* the first one, or by text in the same positions), the number of period  *)
(* columns and its rows; a row is its unit, direction and condition code   *)
(* and the cells that are not zero.  Values are counted in                 *)
(* ten-thousandths, so 50000 is 5.0 and three decimals are tens.           *)
(***************************************************************************)
Days == {1, 2}

dia_inicio_SRS == 2     \* first day sheet 5 is no longer read

pestanas_volumenes == {3, 5, 6, 7, 8}

\* the reference table of markets, before the quarter-hourly flag is set
MercadosI90 == <<
    [id |-> 1, mercado |-> "Terciaria a subir", sentido |-> "Subir",
     sheet_i90_volumenes |-> 7, sheet_i90_precios |-> 9],
    [id |-> 2, mercado |-> "Terciaria a bajar", sentido |-> "Bajar",
     sheet_i90_volumenes |-> 7, sheet_i90_precios |-> 9],
    [id |-> 3, mercado |-> "Terciaria directa", sentido |-> "Directa",
     sheet_i90_volumenes |-> 7, sheet_i90_precios |-> 0],
    [id |-> 4, mercado |-> "Curtailment", sentido |-> "None",
     sheet_i90_volumenes |-> 3, sheet_i90_precios |-> 0],
    [id |-> 5, mercado |-> "Curtailment demanda", sentido |-> "None",
     sheet_i90_volumenes |-> 3, sheet_i90_precios |-> 0],
    [id |-> 6, mercado |-> "RT2 a subir", sentido |-> "Subir",
     sheet_i90_volumenes |-> 3, sheet_i90_precios |-> 0],
    [id |-> 7, mercado |-> "RT2 a bajar", sentido |-> "Bajar",
     sheet_i90_volumenes |-> 3, sheet_i90_precios |-> 0],
    [id |-> 8, mercado |-> "Restricciones a subir", sentido |-> "Subir",
     sheet_i90_volumenes |-> 3, sheet_i90_precios |-> 0],
    [id |-> 9, mercado |-> "Indisponibilidades", sentido |-> "None",
     sheet_i90_volumenes |-> 8, sheet_i90_precios |-> 10],
    [id |-> 10, mercado |-> "Restricciones TR a subir", sentido |-> "Subir",
     sheet_i90_volumenes |-> 8, sheet_i90_precios |-> 10],
    [id |-> 11, mercado |-> "Restricciones TR a bajar", sentido |-> "Bajar",
     sheet_i90_volumenes |-> 8, sheet_i90_precios |-> 10] >>

MercadosTable(is_quinceminutal) ==
    [i \in 1..Len(MercadosI90) |->
        [id |-> MercadosI90[i].id, mercado |-> MercadosI90[i].mercado,
         sentido |-> MercadosI90[i].sentido,
         is_quinceminutal |-> is_quinceminutal,
         sheet_i90_volumenes |-> MercadosI90[i].sheet_i90_volumenes,
         sheet_i90_precios |-> MercadosI90[i].sheet_i90_precios]]

\* str.lower() of a market name
Lower(mercado) ==
    CASE mercado = "Terciaria a subir" -> "terciaria a subir"
      [] mercado = "Terciaria a bajar" -> "terciaria a bajar"
      [] mercado = "Terciaria directa" -> "terciaria directa"
      [] mercado = "Curtailment" -> "curtailment"
      [] mercado = "Curtailment demanda" -> "curtailment demanda"
      [] mercado = "RT2 a subir" -> "rt2 a subir"
      [] mercado = "RT2 a bajar" -> "rt2 a bajar"
      [] mercado = "Restricciones a subir" -> "restricciones a subir"
      [] mercado = "Indisponibilidades" -> "indisponibilidades"
      [] mercado = "Restricciones TR a subir" -> "restricciones tr a subir"
      [] mercado = "Restricciones TR a bajar" -> "restricciones tr a bajar"
      [] OTHER -> mercado

DigitStr(d) == IF d = 0 THEN "0" ELSE <<"1", "2", "3", "4", "5", "6", "7", "8", "9">>[d]

\* str(n)
Str(n) == IF n < 10 THEN DigitStr(n) ELSE DigitStr(n \div 10) \o DigitStr(n % 10)

\* str(n).zfill(2)
zfill2(n) == IF n < 10 THEN "0" \o DigitStr(n) ELSE Str(n)

\* int(sheet)
IntOf(sheet) == CHOOSE n \in 0..99 : sheet \in {Str(n), zfill2(n)}

\* the number of period columns of a sheet of the day
NumPeriodos(formato, day_classification) ==
    LET hours == HoursOfDay(day_classification # "normal", hour_offset(day_classification))
    IN IF formato = "quinceminutal" THEN 4 * hours ELSE hours

\* the period columns that hold values: around the transition and at the day's end
CandidatePeriods(formato, day_classification) ==
    IF formato = "horario"
    THEN (CASE day_classification = "normal" -> <<1, 2, 3, 24>>
            [] day_classification = "short" -> <<2, 3, 22, 23>>
            [] day_classification = "long" -> <<3, 4, 5, 25>>)
    ELSE (CASE day_classification = "normal" -> <<1, 4, 5, 96>>
            [] day_classification = "short" -> <<8, 9, 12, 92>>
            [] day_classification = "long" -> <<9, 13, 16, 100>>)

SheetRow(up, sentido, redespacho, celdas) ==
    [UP |-> up, Sentido |-> sentido, Redespacho |-> redespacho, celdas |-> celdas]

\* the rows a sheet is made of
SheetRowGrid(c) ==
    << SheetRow("UP1", "Subir", "ECO", c[1] :> 50000),
      SheetRow("UP1", "Subir", "ECO", c[2] :> -50000),
      SheetRow("UP1", "Subir", "ECO", c[2] :> 103000 @@ c[3] :> 101000),
      SheetRow("UP2", "Subir", "ECO", c[1] :> 101000 @@ c[4] :> 50000),
      SheetRow("UP1", "Bajar", "ECO", c[1] :> 50000),
      SheetRow("UP2", "Subir", "TERDIR", c[2] :> 103000),
      SheetRow("UP1", "Subir", "ECO", c[2] :> 101000) >>

\* the choices of at most max rows out of n, repeats allowed, listed in the
\* order of the grid: the filters keep the order of the rows and groupby
\* does not depend on it
RowChoices(n, max) ==
    {s \in SeqsUpTo(1..n, max) : \A i \in 1..(Len(s) - 1) : s[i] <= s[i + 1]}

RowsChosen(grid, s) == IF s = <<>> THEN <<>> ELSE [i \in 1..Len(s) |-> grid[s[i]]]

\* the columns of an I90 sheet to the left of its period columns
I90Header == <<"Unidad de Programación", "Sentido", "Redespacho", "Total">>

\* the period columns of a quarter-hourly sheet are headed 1, 2, ...; those of
\* an hourly sheet by text
Encabezado(formato) == IF formato = "quinceminutal" THEN "entero" ELSE "texto"

Sheets(pestana, formato, day_classification) ==
    {[pestana |-> pestana, formato |-> formato, encabezado |-> Encabezado(formato),
      cabecera |-> I90Header, primero |-> 1,
      periodos |-> NumPeriodos(formato, day_classification), filas |-> filas] :
        filas \in LET grid == SheetRowGrid(CandidatePeriods(formato, day_classification))
                  IN {RowsChosen(grid, s) : s \in RowChoices(Len(grid), MaxSheetRows)}}

\* sheets with one period column too many: headed 0 before the first period,
\* or one past the day's last period
MalformedSheets(pestana, formato, day_classification) ==
    {[s EXCEPT !.primero = primero, !.periodos = s.periodos + 1] :
        s \in {x \in Sheets(pestana, formato, day_classification) :
                  Len(x.filas) <= MaxMalformedRows},
        primero \in {0, 1}}

\* the value of a cell
Cell(fila, periodo) == IF periodo \in DOMAIN fila.celdas THEN fila.celdas[periodo] ELSE 0

RECURSIVE SumCells(_, _)
SumCells(fila, periodos) ==
    IF periodos = {} THEN 0
    ELSE LET p == CHOOSE q \in periodos : TRUE
         IN Cell(fila, p) + SumCells(fila, periodos \ {p})

\* the sum of the cells of a unit's rows over a set of period columns
RECURSIVE SumRows(_, _, _)
SumRows(df, up, periodos) ==
    IF df = <<>> THEN 0
    ELSE (IF Head(df).UP = up
          THEN SumCells(Head(df), periodos \cap DOMAIN Head(df).celdas)
          ELSE 0) + SumRows(Tail(df), up, periodos)

CountRows(df, up) == Cardinality({i \in 1..Len(df) : df[i].UP = up})

\* lines 282-283, round(sum / n, 3): the nearest thousandth.  The code rounds
\* the IEEE double of the mean, which is not the exact quotient: where the
\* exact mean is halfway between two thousandths the double lies on one side
\* or the other, depending on the cells that were added, and arriba says
\* whether the upper thousandth comes out.
Mean3(sum, n, arriba) ==
    LET den == 10 * n
        q == sum \div den
        r == sum % den
    IN IF 2 * r < den THEN 10 * q
       ELSE IF 2 * r > den THEN 10 * (q + 1)
       ELSE IF arriba THEN 10 * (q + 1) ELSE 10 * q

(***************************************************************************)
(* process_sheet_v1: one sheet of the day, every market the sheet carries. *)
(***************************************************************************)
\* the direction filter without its second branch
DirectionFilterUpOnly(df, mercado) ==
    IF mercado.sentido = "Subir" THEN SelectSeq(df, LAMBDA r : r.Sentido = "Subir")
    ELSE df

\* lines 223-227: the direction filter of a market
DirectionFilter(df, mercado) ==
    IF mercado.sentido = "Subir" THEN SelectSeq(df, LAMBDA r : r.Sentido = "Subir")
    ELSE IF mercado.sentido = "Bajar" THEN SelectSeq(df, LAMBDA r : r.Sentido = "Bajar")
    ELSE df

\* the condition codes chosen by the sheet alone
CodeFilterBySheet(df, sheet, mercado) ==
    IF sheet = "03"
    THEN (IF mercado.mercado \in {"Curtailment", "Curtailment demanda"}
          THEN SelectSeq(df, LAMBDA r : r.Redespacho \in {"UPLPVPV", "UPLPVPCBN", "UPOPVPB"})
          ELSE IF mercado.mercado \in {"RT2 a subir", "RT2 a bajar"}
          THEN SelectSeq(df, LAMBDA r : r.Redespacho \in {"ECOBSO", "ECOBCBSO"})
          ELSE SelectSeq(df, LAMBDA r : r.Redespacho \in {"ECO", "ECOCB", "UPOPVPV", "UPOPVPVCB"}))
    ELSE IF sheet = "07"
    THEN SelectSeq(df, LAMBDA r : r.Redespacho # "TERDIR")
    ELSE IF sheet = "08" \/ sheet = "10"
    THEN SelectSeq(df, LAMBDA r : r.Redespacho = "Restricciones Técnicas")
    ELSE IF sheet = "09"
    THEN SelectSeq(df, LAMBDA r : r.Redespacho \in {"ECO", "ECOCB", "UPOPVPV", "UPOPVPVCB"})
    ELSE df

\* the condition codes with the curtailment of demand left out of sheet 03
CodeFilterCurtailmentGeneration(df, sheet, mercado) ==
    IF sheet = "03"
    THEN (IF mercado.mercado \in {"Curtailment", "Curtailment demanda"}
          THEN SelectSeq(df, LAMBDA r : r.Redespacho \in {"UPLPVPV", "UPLPVPCBN"})
          ELSE IF mercado.mercado \in {"RT2 a subir", "RT2 a bajar"}
          THEN SelectSeq(df, LAMBDA r : r.Redespacho \in {"ECOBSO", "ECOBCBSO"})
          ELSE SelectSeq(df, LAMBDA r : r.Redespacho \in {"ECO", "ECOCB", "UPOPVPV", "UPOPVPVCB"}))
    ELSE IF sheet = "07"
    THEN (IF mercado.mercado \in {"Terciaria a subir", "Terciaria a bajar"}
          THEN SelectSeq(df, LAMBDA r : r.Redespacho # "TERDIR")
          ELSE SelectSeq(df, LAMBDA r : r.Redespacho = "TERDIR"))
    ELSE IF sheet = "08" \/ sheet = "10"
    THEN (IF mercado.mercado = "Indisponibilidades"
          THEN SelectSeq(df, LAMBDA r : r.Redespacho = "Indisponibilidad")
          ELSE SelectSeq(df, LAMBDA r : r.Redespacho = "Restricciones Técnicas"))
    ELSE IF sheet = "09"
    THEN SelectSeq(df, LAMBDA r : r.Redespacho \in {"ECO", "ECOCB", "UPOPVPV", "UPOPVPVCB"})
    ELSE df

\* lines 229-251: the condition codes of a market on a sheet
CodeFilter(df, sheet, mercado) ==
    IF sheet = "03"
    THEN (IF mercado.mercado \in {"Curtailment", "Curtailment demanda"}
          THEN SelectSeq(df, LAMBDA r : r.Redespacho \in {"UPLPVPV", "UPLPVPCBN", "UPOPVPB"})
          ELSE IF mercado.mercado \in {"RT2 a subir", "RT2 a bajar"}
          THEN SelectSeq(df, LAMBDA r : r.Redespacho \in {"ECOBSO", "ECOBCBSO"})
          ELSE SelectSeq(df, LAMBDA r : r.Redespacho \in {"ECO", "ECOCB", "UPOPVPV", "UPOPVPVCB"}))
    ELSE IF sheet = "07"
    THEN (IF mercado.mercado \in {"Terciaria a subir", "Terciaria a bajar"}
          THEN SelectSeq(df, LAMBDA r : r.Redespacho # "TERDIR")
          ELSE SelectSeq(df, LAMBDA r : r.Redespacho = "TERDIR"))
    ELSE IF sheet = "08" \/ sheet = "10"
    THEN (IF mercado.mercado = "Indisponibilidades"
          THEN SelectSeq(df, LAMBDA r : r.Redespacho = "Indisponibilidad")
          ELSE SelectSeq(df, LAMBDA r : r.Redespacho = "Restricciones Técnicas"))
    ELSE IF sheet = "09"
    THEN SelectSeq(df, LAMBDA r : r.Redespacho \in {"ECO", "ECOCB", "UPOPVPV", "UPOPVPVCB"})
    ELSE df

\* the adjustment of a quarter-hourly sheet whatever the market's flag
AjusteHoraIgnoringFlag(formato, is_quinceminutal, periodo, is_special_date, tipo_cambio_hora) ==
    IF formato = "quinceminutal"
    THEN ajuste_quinceminutal(periodo, is_special_date, tipo_cambio_hora)
    ELSE ajuste_horario(periodo, is_special_date, tipo_cambio_hora)

\* the adjustment called without the day's transition arguments
AjusteHoraNormalDay(formato, is_quinceminutal, periodo, is_special_date, tipo_cambio_hora) ==
    IF formato = "quinceminutal"
    THEN (IF is_quinceminutal
          THEN ajuste_quinceminutal(periodo, FALSE, 0)
          ELSE ajuste_quinceminutal_a_horario(periodo, FALSE, 0))
    ELSE ajuste_horario(periodo, FALSE, 0)

\* lines 264-278: the adjustment the sheet's format and the market's flag select
AjusteHora(formato, is_quinceminutal, periodo, is_special_date, tipo_cambio_hora) ==
    IF formato = "quinceminutal"
    THEN (IF is_quinceminutal
          THEN ajuste_quinceminutal(periodo, is_special_date, tipo_cambio_hora)
          ELSE ajuste_quinceminutal_a_horario(periodo, is_special_date, tipo_cambio_hora))
    ELSE ajuste_horario(periodo, is_special_date, tipo_cambio_hora)

\* the headings of the period columns of a sheet
Labels(sheet_data) == sheet_data.primero..(sheet_data.primero + sheet_data.periodos - 1)

\* lines 261-266: hora_colname is the heading of the first period column; the
\* quarter-hourly adjustments are taken when it is the integer 1, whatever
\* the number of columns
HoraFormato(sheet_data) ==
    LET hora_colname == [tipo |-> sheet_data.encabezado, n |-> sheet_data.primero]
    IN IF hora_colname = [tipo |-> "entero", n |-> 1]
       THEN "quinceminutal" ELSE "horario"

\* the hora column with a period past the day's last one taken for the last one
HoraColumnClamped(sheet_data, is_quinceminutal, is_special_date, tipo_cambio_hora) ==
    LET last == IF HoraFormato(sheet_data) = "quinceminutal"
                THEN 4 * HoursOfDay(is_special_date, tipo_cambio_hora)
                ELSE HoursOfDay(is_special_date, tipo_cambio_hora)
    IN [p \in Labels(sheet_data) |->
           AjusteHora(HoraFormato(sheet_data), is_quinceminutal,
                      IF p > last THEN last ELSE IF p < 1 THEN 1 ELSE p,
                      is_special_date, tipo_cambio_hora)]

\* lines 261-278: the hora column after the adjustment, by period column
HoraColumn(sheet_data, is_quinceminutal, is_special_date, tipo_cambio_hora) ==
    [p \in Labels(sheet_data) |->
        AjusteHora(HoraFormato(sheet_data), is_quinceminutal, p, is_special_date,
                   tipo_cambio_hora)]

\* the position of a column among the columns left of the periods, 0 if absent
ColumnIndex(cabecera, name) ==
    IF \E i \in 1..Len(cabecera) : cabecera[i] = name
    THEN CHOOSE i \in 1..Len(cabecera) : cabecera[i] = name
    ELSE 0

\* the narrowing that stops short of the Total column
NarrowColumnsKeepingTotal(cabecera) ==
    LET total_col == ColumnIndex(cabecera, "Total")
        up_col == ColumnIndex(cabecera, "Unidad de Programación")
    IN IF total_col = 0 \/ up_col = 0
       THEN [exception |-> "KeyError", columns |-> <<>>]
       ELSE IF up_col >= total_col
       THEN [exception |-> "ValueError", columns |-> <<>>]
       ELSE [exception |-> "none",
             columns |-> [i \in 1..(2 + Len(cabecera) - total_col) |->
                             IF i = 1 THEN cabecera[up_col]
                             ELSE cabecera[total_col + i - 2]]]

\* lines 253-258: drop every column up to Total but the unit column;
\* list.remove raises when the unit column is not among them
NarrowColumns(cabecera) ==
    LET total_col == ColumnIndex(cabecera, "Total")
        up_col == ColumnIndex(cabecera, "Unidad de Programación")
    IN IF total_col = 0 \/ up_col = 0
       THEN [exception |-> "KeyError", columns |-> <<>>]
       ELSE IF up_col > total_col
       THEN [exception |-> "ValueError", columns |-> <<>>]
       ELSE [exception |-> "none",
             columns |-> [i \in 1..(1 + Len(cabecera) - total_col) |->
                             IF i = 1 THEN cabecera[up_col]
                             ELSE cabecera[total_col + i - 1]]]

PeriodsOf(hora, h) == {p \in DOMAIN hora : hora[p] = h}

Range(f) == {f[x] : x \in DOMAIN f}

UnitsOf(df) == {df[i].UP : i \in 1..Len(df)}

\* the aggregation that sums the prices too
AggregateSum(df, hora, is_precio, day, id_mercado, arriba) ==
    {[UP |-> g[1], hora |-> g[2],
      valor |-> SumRows(df, g[1], PeriodsOf(hora, g[2])),
      fecha |-> day, id_mercado |-> id_mercado] :
        g \in {k \in UnitsOf(df) \X Range(hora) :
                 is_precio \/ SumRows(df, k[1], PeriodsOf(hora, k[2])) # 0}}

\* the melted rows as they are, without the grouping
AggregateUngrouped(df, hora, is_precio, day, id_mercado, arriba) ==
    {[UP |-> df[c[1]].UP, hora |-> hora[c[2]], valor |-> Cell(df[c[1]], c[2]),
      fecha |-> day, id_mercado |-> id_mercado] :
        c \in {k \in (1..Len(df)) \X DOMAIN hora : is_precio \/ Cell(df[k[1]], k[2]) # 0}}

\* the aggregation that keeps the groups whose sum is zero
AggregateKeepingZero(df, hora, is_precio, day, id_mercado, arriba) ==
    {[UP |-> g[1], hora |-> g[2],
      valor |-> IF is_precio
                THEN Mean3(SumRows(df, g[1], PeriodsOf(hora, g[2])),
                           CountRows(df, g[1]) * Cardinality(PeriodsOf(hora, g[2])),
                           <<id_mercado, g[1], g[2]>> \in arriba)
                ELSE SumRows(df, g[1], PeriodsOf(hora, g[2])),
      fecha |-> day, id_mercado |-> id_mercado] :
        g \in UnitsOf(df) \X Range(hora)}

\* the groups of a price market whose exact mean (sum / n) is halfway between
\* two thousandths
PriceTies(df, hora, id_mercado) ==
    {<<id_mercado, g[1], g[2]>> :
        g \in {k \in UnitsOf(df) \X Range(hora) :
                 \E sum \in {SumRows(df, k[1], PeriodsOf(hora, k[2]))} :
                    \E n \in {CountRows(df, k[1]) * Cardinality(PeriodsOf(hora, k[2]))} :
                       2 * (sum % (10 * n)) = 10 * n}}

\* lines 280-293: group by unit and hora; mean to three decimals for a price,
\* sum without the zero groups for a volume
Aggregate(df, hora, is_precio, day, id_mercado, arriba) ==
    {[UP |-> g[1], hora |-> g[2],
      valor |-> IF is_precio
                THEN Mean3(SumRows(df, g[1], PeriodsOf(hora, g[2])),
                           CountRows(df, g[1]) * Cardinality(PeriodsOf(hora, g[2])),
                           <<id_mercado, g[1], g[2]>> \in arriba)
                ELSE SumRows(df, g[1], PeriodsOf(hora, g[2])),
      fecha |-> day, id_mercado |-> id_mercado] :
        g \in {k \in UnitsOf(df) \X Range(hora) :
                 is_precio \/ SumRows(df, k[1], PeriodsOf(hora, k[2])) # 0}}

\* a market handled without the test of line 265: the adjustment of an empty
\* frame fails
MarketTupleUnguarded(df_sheet, sheet_data, sheet, mercado, is_precio, is_special_date, tipo_cambio_hora, day, arriba) ==
    LET df_direction == DirectionFilter(df_sheet, mercado)
        df == CodeFilter(df_direction, sheet, mercado)
        frame == [id |-> mercado.id, direction |-> df_direction, rows |-> df]
        hora == HoraColumn(sheet_data, mercado.is_quinceminutal, is_special_date,
                           tipo_cambio_hora)
        melted == Len(df) * sheet_data.periodos
    IN IF melted > 0
       THEN [emitted |-> TRUE, raised |-> MappingError \in Range(hora), hora |-> hora,
             columns |-> NarrowColumns(sheet_data.cabecera).columns, frame |-> frame,
             ties |-> IF is_precio THEN PriceTies(df, hora, mercado.id) ELSE {},
             tuple |-> [df |-> Aggregate(df, hora, is_precio, day, mercado.id, arriba),
                        mercado |-> Lower(mercado.mercado), is_precio |-> is_precio]]
       ELSE [emitted |-> FALSE, raised |-> TRUE, hora |-> <<>>,
             columns |-> NarrowColumns(sheet_data.cabecera).columns, frame |-> frame,
             ties |-> {},
             tuple |-> [df |-> {}, mercado |-> Lower(mercado.mercado),
                        is_precio |-> is_precio]]

\* lines 219-296: what one market of the sheet contributes
MarketTuple(df_sheet, sheet_data, sheet, mercado, is_precio, is_special_date, tipo_cambio_hora, day, arriba) ==
    LET df_direction == DirectionFilter(df_sheet, mercado)
        df == CodeFilter(df_direction, sheet, mercado)
        frame == [id |-> mercado.id, direction |-> df_direction, rows |-> df]
        hora == HoraColumn(sheet_data, mercado.is_quinceminutal, is_special_date,
                           tipo_cambio_hora)
        melted == Len(df) * sheet_data.periodos
    IN IF melted > 0
       THEN [emitted |-> TRUE, raised |-> MappingError \in Range(hora), hora |-> hora,
             columns |-> NarrowColumns(sheet_data.cabecera).columns, frame |-> frame,
             ties |-> IF is_precio THEN PriceTies(df, hora, mercado.id) ELSE {},
             tuple |-> [df |-> Aggregate(df, hora, is_precio, day, mercado.id, arriba),
                        mercado |-> Lower(mercado.mercado), is_precio |-> is_precio]]
       ELSE [emitted |-> FALSE, raised |-> FALSE, hora |-> <<>>,
             columns |-> NarrowColumns(sheet_data.cabecera).columns, frame |-> frame,
             ties |-> {},
             tuple |-> [df |-> {}, mercado |-> Lower(mercado.mercado),
                        is_precio |-> is_precio]]

\* lines 198-200: sheet 05 names the unit column after the market participant
RenameParticipante(sheet, cabecera) ==
    IF sheet = "05"
    THEN [i \in 1..Len(cabecera) |->
             IF cabecera[i] = "Participante del Mercado"
             THEN "Unidad de Programación" ELSE cabecera[i]]
    ELSE cabecera

\* lines 166-298
process_sheet_v1(sheet_data, unidades, mercados, volumenes, is_special_date, tipo_cambio_hora, day, arriba) ==
    IF sheet_data.pestana = 5 /\ day >= dia_inicio_SRS
    THEN [results |-> <<>>, hora |-> <<>>, columns |-> <<>>, frames |-> <<>>, ties |-> {},
          exception |-> "none"]
    ELSE LET sheet == zfill2(sheet_data.pestana)
             renamed == [sheet_data EXCEPT !.cabecera = RenameParticipante(sheet, @)]
             df_sheet == SelectSeq(sheet_data.filas, LAMBDA r : r.UP \in unidades)
             is_precio == sheet_data.pestana \notin volumenes
             df_mercados_filtrado ==
                 SelectSeq(mercados,
                           LAMBDA m : IF is_precio
                                      THEN m.sheet_i90_precios = sheet_data.pestana
                                      ELSE m.sheet_i90_volumenes = sheet_data.pestana)
             tuples == [i \in 1..Len(df_mercados_filtrado) |->
                           MarketTuple(df_sheet, renamed, sheet, df_mercados_filtrado[i],
                                       is_precio, is_special_date, tipo_cambio_hora, day,
                                       arriba)]
             emitted == SelectSeq(tuples, LAMBDA t : t.emitted)
             narrowed == NarrowColumns(renamed.cabecera)
         IN IF ColumnIndex(renamed.cabecera, "Unidad de Programación") = 0
            THEN \* line 203: the unit filter reads the column before any market
                 [results |-> <<>>, hora |-> <<>>, columns |-> <<>>, frames |-> <<>>, ties |-> {},
                  exception |-> "KeyError"]
            ELSE IF df_mercados_filtrado # <<>> /\ narrowed.exception # "none"
            THEN [results |-> <<>>, hora |-> <<>>, columns |-> <<>>, frames |-> <<>>, ties |-> {},
                  exception |-> narrowed.exception]
            ELSE IF \E i \in 1..Len(tuples) : tuples[i].raised
            THEN [results |-> <<>>, hora |-> <<>>, columns |-> <<>>, frames |-> <<>>, ties |-> {},
                  exception |-> "MappingError"]
            ELSE [results |-> [i \in 1..Len(emitted) |-> emitted[i].tuple],
                  hora |-> [i \in 1..Len(emitted) |-> emitted[i].hora],
                  columns |-> [i \in 1..Len(tuples) |-> tuples[i].columns],
                  frames |-> [i \in 1..Len(tuples) |-> tuples[i].frame],
                  ties |-> UNION {tuples[i].ties : i \in 1..Len(tuples)},
                  exception |-> "none"]

(***************************************************************************)
(* One sheet of one day, processed once.                                   *)
(***************************************************************************)
UnitSets == {{"UP1", "UP2"}, {"UP1"}}

InitGrid ==
    /\ writer = "raw"
    /\ dataset_type = "volumenes_i90"
    /\ partition = NoPartition
    /\ call = NoCall
    /\ ConcIdle
    /\ CsvIdle
    /\ tipo_dia \in DayClassifications
    /\ df_mercados \in {MercadosTable(q) : q \in BOOLEAN}
    /\ \E pestana \in {7, 9} : \E formato \in {"horario", "quinceminutal"} :
          hoja \in Sheets(pestana, formato, tipo_dia)
                      \cup MalformedSheets(pestana, formato, tipo_dia)
    /\ sheet_call = NoSheetCall
    /\ ExtractIdle

\* the groups of the call whose rounding the cells decide
SheetTies(unidades, day) ==
    IF hoja.pestana \in pestanas_volumenes THEN {}
    ELSE process_sheet_v1(hoja, unidades, df_mercados, pestanas_volumenes,
                          tipo_dia # "normal", hour_offset(tipo_dia), day, {}).ties

ProcessSheetV1(unidades, day) ==
    /\ sheet_call.op = "none"
    /\ \E arriba \in SUBSET SheetTies(unidades, day) :
       \E r \in {process_sheet_v1(hoja, unidades, df_mercados, pestanas_volumenes,
                                  tipo_dia # "normal", hour_offset(tipo_dia), day, arriba)} :
          sheet_call' = [op |-> "process_sheet_v1", unidades |-> unidades, day |-> day,
                         results |-> r.results, hora |-> r.hora,
                         columns |-> r.columns, frames |-> r.frames,
                         exception |-> r.exception]
    /\ UNCHANGED <<storeVars, concVars, tipo_dia, hoja, df_mercados, extractVars, csvVars>>

NextGrid == \E unidades \in UnitSets : \E day \in Days : ProcessSheetV1(unidades, day)

SpecGrid == InitGrid /\ [][NextGrid]_vars

(***************************************************************************)
(* One sheet of a normal day with rows of every direction and condition    *)
(* code, and with the unit column on either side of the other columns.     *)
(***************************************************************************)
\* the condition codes found on a sheet
FilterCodes(pestana) ==
    CASE pestana = 3 -> {"UPLPVPV", "UPOPVPB", "ECOBSO", "ECO", "OTRO"}
      [] pestana = 7 -> {"TERDIR", "TER"}
      [] pestana \in {8, 10} -> {"Indisponibilidad", "Restricciones Técnicas", "OTRO"}
      [] OTHER -> {"ECO", "OTRO"}

FilterRowGrid(pestana) ==
    {SheetRow("UP1", sentido, redespacho, 1 :> 50000) :
        sentido \in {"Subir", "Bajar"}, redespacho \in FilterCodes(pestana)}

FilterSheets(pestana, cabecera) ==
    {[pestana |-> pestana, formato |-> "horario", encabezado |-> Encabezado("horario"),
      cabecera |-> cabecera, primero |-> 1,
      periodos |-> NumPeriodos("horario", "normal"), filas |-> filas] :
        filas \in SeqsUpTo(FilterRowGrid(pestana), MaxSheetRows)}

\* the unit column left of Total, first or not
I90Headers == {I90Header, <<"Sentido", "Unidad de Programación", "Redespacho", "Total">>}

\* the unit column right of Total
HeaderUnitLast == <<"Sentido", "Redespacho", "Total", "Unidad de Programación">>

InitFilter ==
    /\ writer = "raw"
    /\ dataset_type = "volumenes_i90"
    /\ partition = NoPartition
    /\ call = NoCall
    /\ ConcIdle
    /\ CsvIdle
    /\ tipo_dia = "normal"
    /\ df_mercados = MercadosTable(FALSE)
    /\ \E pestana \in {3, 7, 8, 9, 10} : \E cabecera \in I90Headers :
          hoja \in FilterSheets(pestana, cabecera)
    /\ sheet_call = NoSheetCall
    /\ ExtractIdle

SpecFilter == InitFilter /\ [][NextGrid]_vars

InitColumns ==
    /\ writer = "raw"
    /\ dataset_type = "volumenes_i90"
    /\ partition = NoPartition
    /\ call = NoCall
    /\ ConcIdle
    /\ CsvIdle
    /\ tipo_dia = "normal"
    /\ df_mercados = MercadosTable(FALSE)
    /\ \E pestana \in {7, 9} : \E cabecera \in I90Headers \cup {HeaderUnitLast} :
          hoja \in FilterSheets(pestana, cabecera)
    /\ sheet_call = NoSheetCall
    /\ ExtractIdle

SpecColumns == InitColumns /\ [][NextGrid]_vars

(***************************************************************************)
(* Properties of the time grid and of the series a sheet yields.           *)
(***************************************************************************)
SheetProcessed == sheet_call.op = "process_sheet_v1" /\ sheet_call.exception = "none"

\* the market of the i-th result and the rows of the sheet that are its input
ResultMarket(i) ==
    CHOOSE j \in 1..Len(df_mercados) :
        Lower(df_mercados[j].mercado) = sheet_call.results[i].mercado

ResultFrame(i) ==
    CodeFilter(DirectionFilter(SelectSeq(hoja.filas, LAMBDA r : r.UP \in sheet_call.unidades),
                               df_mercados[ResultMarket(i)]),
               zfill2(hoja.pestana), df_mercados[ResultMarket(i)])

\* the local hours the periods of the i-th result were mapped to
HoursOfResult(i) == {sheet_call.hora[i][p] \div 60 : p \in DOMAIN sheet_call.hora[i]}

PeriodsOfHour(i, h) ==
    {p \in DOMAIN sheet_call.hora[i] : sheet_call.hora[i][p] \div 60 = h}

\* C8: on a normal day (hour offset 0) a quarter-hourly sheet of a market that
\* is kept hourly has its 96 periods mapped to hour floor((p-1)/4): periods
\* 1-4 to hour 0, 5-8 to hour 1, ..., 93-96 to hour 23, four periods an hour.
C8_QuarterHourCollapse ==
    (SheetProcessed /\ tipo_dia = "normal" /\ hoja.formato = "quinceminutal"
       /\ ~df_mercados[1].is_quinceminutal)
    => \A i \in 1..Len(sheet_call.results) :
          /\ DOMAIN sheet_call.hora[i] = 1..96
          /\ \A p \in 1..96 : sheet_call.hora[i][p] = 60 * ((p - 1) \div 4)
          /\ \A p \in 1..4 : sheet_call.hora[i][p] = 0 /\ sheet_call.hora[i][92 + p] = 60 * 23
          /\ \A h \in 0..23 : Cardinality(PeriodsOfHour(i, h)) = 4
          /\ \A r \in sheet_call.results[i].df : r.hora \in {60 * h : h \in 0..23}

\* period 96 of a collapsed quarter-hourly sheet has produced a row at 23:00
C8_Witness ==
    /\ SheetProcessed /\ tipo_dia = "normal" /\ hoja.formato = "quinceminutal"
    /\ ~df_mercados[1].is_quinceminutal
    /\ \E i \in 1..Len(sheet_call.results) :
          /\ \E r \in sheet_call.results[i].df : r.hora = 60 * 23
          /\ \E r \in sheet_call.results[i].df : r.hora = 0

\* C9: the periods of a short day are mapped to exactly 23 distinct local
\* hours, every hour of the day but the transition hour, and no two hourly
\* periods are mapped to the same hour.
C9_ShortDayHours ==
    (SheetProcessed /\ tipo_dia = "short")
    => \A i \in 1..Len(sheet_call.results) :
          /\ DOMAIN sheet_call.hora[i] = 1..(IF hoja.formato = "horario" THEN 23 ELSE 92)
          /\ Cardinality(HoursOfResult(i)) = 23
          /\ HoursOfResult(i) = (0..23) \ {TransitionHour}
          /\ hoja.formato = "horario"
               => \A p, q \in 1..23 :
                     sheet_call.hora[i][p] = sheet_call.hora[i][q] => p = q

\* an hourly sheet of a short day has produced rows on both sides of the transition
C9_Witness ==
    /\ SheetProcessed /\ tipo_dia = "short" /\ hoja.formato = "horario"
    /\ \E i \in 1..Len(sheet_call.results) :
          /\ \E r \in sheet_call.results[i].df : r.hora = 60 * (TransitionHour - 1)
          /\ \E r \in sheet_call.results[i].df : r.hora = 60 * (TransitionHour + 1)

\* the rows of the i-th result for a unit at the transition hour
TransitionRows(i, up) ==
    {r \in sheet_call.results[i].df : r.UP = up /\ r.hora = 60 * TransitionHour}

\* v is a multiple of a thousandth and no other is nearer to sum / n
IsMeanTo3Decimals(v, sum, n) ==
    /\ v % 10 = 0
    /\ 2 * (v * n - sum) <= 10 * n
    /\ 2 * (sum - v * n) <= 10 * n

\* the sum of what the two periods of the transition hour hold for a unit
TransitionTotal(i, up) ==
    SumRows(ResultFrame(i), up, {TransitionHour + 1, TransitionHour + 2})

\* v is the aggregate of the two periods: their mean to three decimals for a
\* price, their sum for a volume
IsTransitionValue(v, i, up) ==
    IF sheet_call.results[i].is_precio
    THEN IsMeanTo3Decimals(v, TransitionTotal(i, up), 2 * CountRows(ResultFrame(i), up))
    ELSE v = TransitionTotal(i, up)

\* the 25 hourly periods of a long day are mapped to 24 distinct local hours
\* and the transition hour alone is the image of two periods
LongDayHours(i) ==
    /\ DOMAIN sheet_call.hora[i] = 1..25
    /\ Cardinality(HoursOfResult(i)) = 24
    /\ \A h \in HoursOfResult(i) :
          Cardinality(PeriodsOfHour(i, h)) = IF h = TransitionHour THEN 2 ELSE 1

\* C10 as stated: the hours of a long day as above, and one row for every
\* unit of the market's rows at the transition hour.
C10_LongDaySingleRow ==
    (SheetProcessed /\ tipo_dia = "long" /\ hoja.formato = "horario")
    => \A i \in 1..Len(sheet_call.results) :
          /\ LongDayHours(i)
          /\ \A up \in UnitsOf(ResultFrame(i)) : Cardinality(TransitionRows(i, up)) = 1

\* C10 amended: the hours of a long day as above, and at most one row for
\* every unit at the transition hour; the row holds the aggregate of the two
\* periods and is there unless the market is a volume and the sum is zero.
C10_LongDayAtMostOneRow ==
    (SheetProcessed /\ tipo_dia = "long" /\ hoja.formato = "horario")
    => \A i \in 1..Len(sheet_call.results) :
          /\ LongDayHours(i)
          /\ \A up \in UnitsOf(ResultFrame(i)) :
                /\ Cardinality(TransitionRows(i, up)) <= 1
                /\ \A r \in TransitionRows(i, up) : IsTransitionValue(r.valor, i, up)
                /\ TransitionRows(i, up) = {}
                     <=> (~sheet_call.results[i].is_precio /\ TransitionTotal(i, up) = 0)

\* a unit with a value in each period of the transition hour has one row
\* holding both
C10_Witness ==
    /\ SheetProcessed /\ tipo_dia = "long" /\ hoja.formato = "horario"
    /\ \E i \in 1..Len(sheet_call.results) : \E up \in UnitsOf(ResultFrame(i)) :
          /\ \E j, k \in 1..Len(ResultFrame(i)) :
                /\ ResultFrame(i)[j].UP = up /\ ResultFrame(i)[k].UP = up
                /\ Cell(ResultFrame(i)[j], TransitionHour + 1) # 0
                /\ Cell(ResultFrame(i)[k], TransitionHour + 2) # 0
          /\ Cardinality(TransitionRows(i, up)) = 1

(***************************************************************************)
(* get_i90_data: download the day's workbook, drop the sheets the error    *)
(* table flags for the day, copy the others to a filtered workbook, remove *)
(* the download.  The temporary download path is the working directory.    *)
(***************************************************************************)
ErrorRecords == [fecha : Days, tipo_error : {3, 7}]

\* the sheets of a downloaded workbook
WorkbookSheets == <<"I90DIA03", "I90DIA07", "I90DIA09">>

TempFile(kind, day) == [kind |-> kind, day |-> day]

\* lines 53-63 without the early return
filter_sheets_no_return(errores, day, sheets_of_interest) ==
    LET df_errores_dia == {e \in errores : e.fecha = day}
        pestanas_con_error == {e.tipo_error : e \in df_errores_dia}
    IN IF df_errores_dia # {}
       THEN [bound |-> TRUE,
             sheets |-> SelectSeq(sheets_of_interest,
                                  LAMBDA s : IntOf(s) \notin pestanas_con_error),
             returns |-> FALSE]
       ELSE [bound |-> FALSE, sheets |-> <<>>, returns |-> FALSE]

\* lines 53-63: valid_sheets is assigned only when the day has error records;
\* the call returns at once when no requested sheet is left
filter_sheets(errores, day, sheets_of_interest) ==
    LET df_errores_dia == {e \in errores : e.fecha = day}
        pestanas_con_error == {e.tipo_error : e \in df_errores_dia}
        valid == SelectSeq(sheets_of_interest,
                           LAMBDA s : IntOf(s) \notin pestanas_con_error)
    IN IF df_errores_dia # {}
       THEN [bound |-> TRUE, sheets |-> valid, returns |-> valid = <<>>]
       ELSE [bound |-> FALSE, sheets |-> <<>>, returns |-> FALSE]

\* lines 125-135: the sheets of the workbook that are among the sheets to keep
process_sheet(sheets_to_keep) ==
    SelectSeq(WorkbookSheets,
              LAMBDA n : \E i \in 1..Len(sheets_to_keep) : n = "I90DIA" \o sheets_to_keep[i])

\* line 50: _make_i90_request saves the archive and extracts the workbook
I90Request(day, sheets_of_interest) ==
    /\ i90.pc = "idle"
    /\ volumenes_call.op = "none"
    /\ i90' = [i90 EXCEPT !.pc = "requested", !.day = day,
                          !.sheets_of_interest = sheets_of_interest]
    /\ files' = files \cup {TempFile("zip", day), TempFile("xls", day)}
    /\ UNCHANGED <<storeVars, concVars, sheetVars, csvVars, lista_errores, volumenes_call>>

\* lines 52-63
I90FilterErrors ==
    /\ i90.pc = "requested"
    /\ \E r \in {filter_sheets(lista_errores, i90.day, i90.sheets_of_interest)} :
          i90' = IF r.returns
                 THEN [i90 EXCEPT !.pc = "returned",
                                  !.valid_sheets = [bound |-> r.bound, sheets |-> r.sheets],
                                  !.warning = TRUE,
                                  !.result = [kind |-> "DataFrame", sheets |-> <<>>]]
                 ELSE [i90 EXCEPT !.pc = "filtered",
                                  !.valid_sheets = [bound |-> r.bound, sheets |-> r.sheets]]
    /\ UNCHANGED <<storeVars, concVars, sheetVars, csvVars, lista_errores, files, volumenes_call>>

\* line 66: reading valid_sheets fails when it was never assigned
I90ProcessSheet ==
    /\ i90.pc = "filtered"
    /\ IF i90.valid_sheets.bound
       THEN /\ i90' = [i90 EXCEPT !.pc = "processed",
                                  !.result = [kind |-> "ExcelFile",
                                              sheets |-> process_sheet(i90.valid_sheets.sheets)]]
            /\ files' = files \cup {TempFile("filtered", i90.day)}
       ELSE /\ i90' = [i90 EXCEPT !.pc = "raised", !.exception = "UnboundLocalError"]
            /\ files' = files
    /\ UNCHANGED <<storeVars, concVars, sheetVars, csvVars, lista_errores, volumenes_call>>

\* lines 69-71: cleanup_files removes the archive and the workbook
I90Cleanup ==
    /\ i90.pc = "processed"
    /\ files' = files \ {TempFile("zip", i90.day), TempFile("xls", i90.day)}
    /\ i90' = [i90 EXCEPT !.pc = "returned"]
    /\ UNCHANGED <<storeVars, concVars, sheetVars, csvVars, lista_errores, volumenes_call>>

(***************************************************************************)
(* TerciariaVolumenDL.get_volumenes: the tertiary regulation volumes of a  *)
(* day, one result for each direction that has rows.  The sheet number and *)
(* the unit identifiers come from the configuration and the reference      *)
(* store.                                                                  *)
(***************************************************************************)
TerciariaSheetId == 7

DefaultSentidos == <<"Subir", "Bajar", "Directa">>

\* dict_unidades: the identifier of a programming unit
DictUnidades(up) == IF up = "UP1" THEN 1 ELSE 2

\* the check of line 360 with the sheet as text: never among the flagged numbers
SheetHasErrorsAsText(errores, day, sheet_id) == FALSE

\* lines 353-360: the sheet is among the day's flagged sheets
SheetHasErrors(errores, day, sheet_id) ==
    sheet_id \in {e.tipo_error : e \in {x \in errores : x.fecha = day}}

\* the direction filter without the test of the code
SentidoFilterByDirection(df, sentido) ==
    IF sentido \in {"Subir", "Bajar"}
    THEN SelectSeq(df, LAMBDA r : r.Sentido = sentido)
    ELSE IF sentido = "Directa"
    THEN SelectSeq(df, LAMBDA r : r.Redespacho = "TERDIR")
    ELSE df

\* lines 373-381
SentidoFilter(df, sentido) ==
    IF sentido = "Subir"
    THEN SelectSeq(df, LAMBDA r : r.Sentido = "Subir" /\ r.Redespacho # "TERDIR")
    ELSE IF sentido = "Bajar"
    THEN SelectSeq(df, LAMBDA r : r.Sentido = "Bajar" /\ r.Redespacho # "TERDIR")
    ELSE IF sentido = "Directa"
    THEN SelectSeq(df, LAMBDA r : r.Redespacho = "TERDIR")
    ELSE df

\* the sums by unit and hora with the zero sums kept
VolumenRowsKeepingZero(df, hora, day) ==
    {[UP |-> g[1], hora |-> g[2], volumen |-> SumRows(df, g[1], PeriodsOf(hora, g[2])),
      fecha |-> day, UP_id |-> DictUnidades(g[1])] :
        g \in UnitsOf(df) \X Range(hora)}

\* lines 395-414: adjust the periods, sum by unit and hora, drop the zero sums
VolumenRows(df, hora, day) ==
    {[UP |-> g[1], hora |-> g[2], volumen |-> SumRows(df, g[1], PeriodsOf(hora, g[2])),
      fecha |-> day, UP_id |-> DictUnidades(g[1])] :
        g \in {k \in UnitsOf(df) \X Range(hora) :
                 SumRows(df, k[1], PeriodsOf(hora, k[2])) # 0}}

\* lines 370-417: what one direction contributes
SentidoTuple(df, sheet_data, sentido, is_special_date, tipo_cambio_hora, day) ==
    LET df_sentido == SentidoFilter(df, sentido)
        hora == [p \in Labels(sheet_data) |->
                    IF HoraFormato(sheet_data) = "quinceminutal"
                    THEN ajuste_quinceminutal(p, is_special_date, tipo_cambio_hora)
                    ELSE ajuste_horario(p, is_special_date, tipo_cambio_hora)]
        narrowed == NarrowColumns(sheet_data.cabecera)
    IN IF df_sentido # <<>>
       THEN [emitted |-> TRUE,
             exception |-> IF narrowed.exception # "none" THEN narrowed.exception
                           ELSE IF MappingError \in Range(hora) THEN "MappingError"
                           ELSE "none",
             frame |-> [nombre |-> sentido, rows |-> df_sentido],
             tuple |-> [df |-> VolumenRows(df_sentido, hora, day), sentido |-> sentido]]
       ELSE [emitted |-> FALSE, exception |-> "none",
             frame |-> [nombre |-> sentido, rows |-> df_sentido],
             tuple |-> [df |-> {}, sentido |-> sentido]]

\* lines 322-422
get_volumenes(sheet_data, errores, day, unidades, sentidos, is_special_date, tipo_cambio_hora) ==
    IF SheetHasErrors(errores, day, TerciariaSheetId)
    THEN [results |-> <<>>, frames |-> <<>>, sheets_read |-> {}, exception |-> "none"]
    ELSE LET df == SelectSeq(sheet_data.filas, LAMBDA r : r.UP \in unidades)
             tuples == [i \in 1..Len(sentidos) |->
                           SentidoTuple(df, sheet_data, sentidos[i], is_special_date,
                                        tipo_cambio_hora, day)]
             emitted == SelectSeq(tuples, LAMBDA t : t.emitted)
             failed == SelectSeq(tuples, LAMBDA t : t.exception # "none")
         IN IF ColumnIndex(sheet_data.cabecera, "Unidad de Programación") = 0
            THEN \* the unit filter reads the column before any frame is made
                 [results |-> <<>>, frames |-> <<>>,
                  sheets_read |-> {zfill2(TerciariaSheetId)}, exception |-> "KeyError"]
            ELSE IF failed # <<>>
            THEN [results |-> <<>>, frames |-> <<>>,
                  sheets_read |-> {zfill2(TerciariaSheetId)},
                  exception |-> failed[1].exception]
            ELSE [results |-> [i \in 1..Len(emitted) |-> emitted[i].tuple],
                  frames |-> [i \in 1..Len(tuples) |-> tuples[i].frame],
                  sheets_read |-> {zfill2(TerciariaSheetId)}, exception |-> "none"]

GetVolumenes(day, unidades, sentidos) ==
    /\ volumenes_call.op = "none"
    /\ i90.pc \in {"idle", "returned", "raised"}
    /\ hoja.pestana = TerciariaSheetId
    /\ \E r \in {get_volumenes(hoja, lista_errores, day, unidades, sentidos,
                               tipo_dia # "normal", hour_offset(tipo_dia))} :
          /\ volumenes_call' = [op |-> "get_volumenes", day |-> day,
                                sentidos |-> sentidos, unidades |-> unidades,
                                sheets_read |-> r.sheets_read, results |-> r.results,
                                frames |-> r.frames, exception |-> r.exception]
          /\ files' = IF r.exception = "none"
                      THEN files \ {TempFile("zip", day), TempFile("xls", day)}
                      ELSE files \cup {TempFile("zip", day), TempFile("xls", day)}
    /\ UNCHANGED <<storeVars, concVars, sheetVars, csvVars, lista_errores, i90>>

(***************************************************************************)
(* CurtailmentVolumenDL.get_volumenes: the curtailment volumes of a day,   *)
(* one result for each curtailment type that has rows.                     *)
(***************************************************************************)
CurtailmentSheetId == 3

DefaultTipos == <<"Curtailment", "Curtailment demanda">>

\* lines 689-732: what one curtailment type contributes; df_tipo is the
\* filter of lines 693-696
TipoTuple(df, sheet_data, tipo, is_special_date, tipo_cambio_hora, day) ==
    LET df_tipo ==
            IF tipo = "Curtailment"
            THEN SelectSeq(df, LAMBDA r : r.Redespacho \in {"UPLPVPV", "UPLPVPCBN"})
            ELSE IF tipo = "Curtailment demanda"
            THEN SelectSeq(df, LAMBDA r : r.Redespacho = "UPOPVPB")
            ELSE df
        hora == [p \in Labels(sheet_data) |->
                    IF HoraFormato(sheet_data) = "quinceminutal"
                    THEN ajuste_quinceminutal(p, is_special_date, tipo_cambio_hora)
                    ELSE ajuste_horario(p, is_special_date, tipo_cambio_hora)]
        narrowed == NarrowColumns(sheet_data.cabecera)
    IN [emitted |-> df_tipo # <<>>,
        exception |-> IF df_tipo = <<>> THEN "none"
                      ELSE IF narrowed.exception # "none" THEN narrowed.exception
                      ELSE IF MappingError \in Range(hora) THEN "MappingError"
                      ELSE "none",
        frame |-> [nombre |-> tipo, rows |-> df_tipo],
        tuple |-> [df |-> IF df_tipo = <<>> THEN {} ELSE VolumenRows(df_tipo, hora, day),
                   sentido |-> tipo]]

\* lines 641-737
curtailment_get_volumenes(sheet_data, errores, day, unidades, tipos, is_special_date, tipo_cambio_hora) ==
    IF SheetHasErrors(errores, day, CurtailmentSheetId)
    THEN [results |-> <<>>, frames |-> <<>>, sheets_read |-> {}, exception |-> "none"]
    ELSE LET df == SelectSeq(sheet_data.filas, LAMBDA r : r.UP \in unidades)
             tuples == [i \in 1..Len(tipos) |->
                           TipoTuple(df, sheet_data, tipos[i], is_special_date,
                                     tipo_cambio_hora, day)]
             emitted == SelectSeq(tuples, LAMBDA t : t.emitted)
             failed == SelectSeq(tuples, LAMBDA t : t.exception # "none")
         IN IF ColumnIndex(sheet_data.cabecera, "Unidad de Programación") = 0
            THEN \* the unit filter reads the column before any frame is made
                 [results |-> <<>>, frames |-> <<>>,
                  sheets_read |-> {zfill2(CurtailmentSheetId)}, exception |-> "KeyError"]
            ELSE IF failed # <<>>
            THEN [results |-> <<>>, frames |-> <<>>,
                  sheets_read |-> {zfill2(CurtailmentSheetId)},
                  exception |-> failed[1].exception]
            ELSE [results |-> [i \in 1..Len(emitted) |-> emitted[i].tuple],
                  frames |-> [i \in 1..Len(tuples) |-> tuples[i].frame],
                  sheets_read |-> {zfill2(CurtailmentSheetId)}, exception |-> "none"]

CurtailmentGetVolumenes(day, unidades, tipos) ==
    /\ volumenes_call.op = "none"
    /\ i90.pc \in {"idle", "returned", "raised"}
    /\ hoja.pestana = CurtailmentSheetId
    /\ \E r \in {curtailment_get_volumenes(hoja, lista_errores, day, unidades, tipos,
                                           tipo_dia # "normal", hour_offset(tipo_dia))} :
          /\ volumenes_call' = [op |-> "curtailment_get_volumenes", day |-> day,
                                sentidos |-> tipos, unidades |-> unidades,
                                sheets_read |-> r.sheets_read, results |-> r.results,
                                frames |-> r.frames, exception |-> r.exception]
          /\ files' = IF r.exception = "none"
                      THEN files \ {TempFile("zip", day), TempFile("xls", day)}
                      ELSE files \cup {TempFile("zip", day), TempFile("xls", day)}
    /\ UNCHANGED <<storeVars, concVars, sheetVars, csvVars, lista_errores, i90>>

(***************************************************************************)
(* SecundariaVolumenDL.get_volumenes: the secondary-regulation volumes of  *)
(* a day, one result for each direction that has rows.  The class assigns  *)
(* no sheet_id; the sheet is the secondary-regulation sheet 05 of          *)
(* process_sheet_v1.                                                       *)
(***************************************************************************)
SecundariaSheetId == 5

\* lines 439-535
secundaria_get_volumenes(sheet_data, errores, day, unidades, sentidos, is_special_date, tipo_cambio_hora) ==
    IF SheetHasErrors(errores, day, SecundariaSheetId)
    THEN [results |-> <<>>, frames |-> <<>>, sheets_read |-> {}, exception |-> "none"]
    ELSE LET df == SelectSeq(sheet_data.filas, LAMBDA r : r.UP \in unidades)
             hora == [p \in Labels(sheet_data) |->
                         IF HoraFormato(sheet_data) = "quinceminutal"
                         THEN ajuste_quinceminutal(p, is_special_date, tipo_cambio_hora)
                         ELSE ajuste_horario(p, is_special_date, tipo_cambio_hora)]
             narrowed == NarrowColumns(sheet_data.cabecera)
             \* lines 491-494: the direction alone selects the rows
             Filtered(sentido) ==
                 IF sentido \in {"Subir", "Bajar"}
                 THEN SelectSeq(df, LAMBDA r : r.Sentido = sentido)
                 ELSE df
             \* lines 487-530: what one direction contributes
             Tuple(sentido) ==
                 LET df_sentido == Filtered(sentido)
                 IN [emitted |-> df_sentido # <<>>,
                     exception |->
                         IF sentido \in {"Subir", "Bajar"}
                            /\ ColumnIndex(sheet_data.cabecera, "Sentido") = 0
                         THEN "KeyError"
                         ELSE IF df_sentido = <<>> THEN "none"
                         ELSE IF narrowed.exception # "none" THEN narrowed.exception
                         ELSE IF MappingError \in Range(hora) THEN "MappingError"
                         ELSE "none",
                     frame |-> [nombre |-> sentido, rows |-> df_sentido],
                     tuple |-> [df |-> IF df_sentido = <<>> THEN {}
                                       ELSE VolumenRows(df_sentido, hora, day),
                                sentido |-> sentido]]
             tuples == [i \in 1..Len(sentidos) |-> Tuple(sentidos[i])]
             emitted == SelectSeq(tuples, LAMBDA t : t.emitted)
             failed == SelectSeq(tuples, LAMBDA t : t.exception # "none")
         IN IF ColumnIndex(sheet_data.cabecera, "Unidad de Programación") = 0
            THEN \* line 484: the unit filter reads the column before any frame is made
                 [results |-> <<>>, frames |-> <<>>,
                  sheets_read |-> {zfill2(SecundariaSheetId)}, exception |-> "KeyError"]
            ELSE IF failed # <<>>
            THEN [results |-> <<>>, frames |-> <<>>,
                  sheets_read |-> {zfill2(SecundariaSheetId)},
                  exception |-> failed[1].exception]
            ELSE [results |-> [i \in 1..Len(emitted) |-> emitted[i].tuple],
                  frames |-> [i \in 1..Len(tuples) |-> tuples[i].frame],
                  sheets_read |-> {zfill2(SecundariaSheetId)}, exception |-> "none"]

\* the whole call: the download of line 461 leaves the day's archive and
\* workbook, cleanup_files (line 533) removes them unless the sheet has raised
SecundariaGetVolumenes(day, unidades, sentidos) ==
    /\ volumenes_call.op = "none"
    /\ i90.pc \in {"idle", "returned", "raised"}
    /\ hoja.pestana = SecundariaSheetId
    /\ \E r \in {secundaria_get_volumenes(hoja, lista_errores, day, unidades, sentidos,
                                          tipo_dia # "normal", hour_offset(tipo_dia))} :
          /\ volumenes_call' = [op |-> "secundaria_get_volumenes", day |-> day,
                                sentidos |-> sentidos, unidades |-> unidades,
                                sheets_read |-> r.sheets_read, results |-> r.results,
                                frames |-> r.frames, exception |-> r.exception]
          /\ files' = IF r.exception = "none"
                      THEN files \ {TempFile("zip", day), TempFile("xls", day)}
                      ELSE files \cup {TempFile("zip", day), TempFile("xls", day)}
    /\ UNCHANGED <<storeVars, concVars, sheetVars, csvVars, lista_errores, i90>>

(***************************************************************************)
(* RRVolumenDL.get_volumenes: the replacement-reserve volumes of a day, one *)
(* frame, empty when the sheet is flagged or has no row of the code.       *)
(***************************************************************************)
RRSheetId == 8

\* lines 547-629
rr_get_volumenes(sheet_data, errores, day, unidades, is_special_date, tipo_cambio_hora) ==
    IF SheetHasErrors(errores, day, RRSheetId)
    THEN [results |-> <<[df |-> {}, sentido |-> "None"]>>, frames |-> <<>>,
          sheets_read |-> {}, exception |-> "none"]
    ELSE LET \* lines 586-589: the units, then the rows coded Restricciones Técnicas
             df == SelectSeq(sheet_data.filas,
                             LAMBDA r : r.UP \in unidades
                                        /\ r.Redespacho = "Restricciones Técnicas")
             hora == [p \in Labels(sheet_data) |->
                         IF HoraFormato(sheet_data) = "quinceminutal"
                         THEN ajuste_quinceminutal(p, is_special_date, tipo_cambio_hora)
                         ELSE ajuste_horario(p, is_special_date, tipo_cambio_hora)]
             narrowed == NarrowColumns(sheet_data.cabecera)
             exception ==
                 IF ColumnIndex(sheet_data.cabecera, "Unidad de Programación") = 0
                    \/ ColumnIndex(sheet_data.cabecera, "Redespacho") = 0
                 THEN "KeyError"
                 ELSE IF df = <<>> THEN "none"
                 ELSE IF narrowed.exception # "none" THEN narrowed.exception
                 ELSE IF MappingError \in Range(hora) THEN "MappingError"
                 ELSE "none"
         IN IF exception # "none"
            THEN [results |-> <<>>, frames |-> <<>>,
                  sheets_read |-> {zfill2(RRSheetId)}, exception |-> exception]
            ELSE [results |-> <<[df |-> IF df = <<>> THEN {} ELSE VolumenRows(df, hora, day),
                                 sentido |-> "None"]>>,
                  frames |-> <<[nombre |-> "None", rows |-> df]>>,
                  sheets_read |-> {zfill2(RRSheetId)}, exception |-> "none"]

\* the whole call: the download of line 563 leaves the day's archive and
\* workbook, cleanup_files (line 627) removes them unless the sheet has raised
RRGetVolumenes(day, unidades) ==
    /\ volumenes_call.op = "none"
    /\ i90.pc \in {"idle", "returned", "raised"}
    /\ hoja.pestana = RRSheetId
    /\ \E r \in {rr_get_volumenes(hoja, lista_errores, day, unidades,
                                  tipo_dia # "normal", hour_offset(tipo_dia))} :
          /\ volumenes_call' = [op |-> "rr_get_volumenes", day |-> day,
                                sentidos |-> <<>>, unidades |-> unidades,
                                sheets_read |-> r.sheets_read, results |-> r.results,
                                frames |-> r.frames, exception |-> r.exception]
          /\ files' = IF r.exception = "none"
                      THEN files \ {TempFile("zip", day), TempFile("xls", day)}
                      ELSE files \cup {TempFile("zip", day), TempFile("xls", day)}
    /\ UNCHANGED <<storeVars, concVars, sheetVars, csvVars, lista_errores, i90>>

(***************************************************************************)
(* The extraction of a day: the error table and the day's sheet are given, *)
(* a caller fetches the filtered workbook or the tertiary volumes.         *)
(***************************************************************************)
InitI90 ==
    /\ writer = "raw"
    /\ dataset_type = "volumenes_i90"
    /\ partition = NoPartition
    /\ call = NoCall
    /\ ConcIdle
    /\ CsvIdle
    /\ tipo_dia = "normal"
    /\ df_mercados = MercadosTable(TRUE)
    /\ hoja \in Sheets(TerciariaSheetId, "horario", tipo_dia)
    /\ sheet_call = NoSheetCall
    /\ lista_errores \in SUBSET ErrorRecords
    /\ files = {}
    /\ i90 = NoI90Call
    /\ volumenes_call = NoVolumenesCall

NextI90 ==
    \/ \E day \in Days : \E sheets_of_interest \in {<<"03">>, <<"07">>, <<"03", "07">>} :
          I90Request(day, sheets_of_interest)
    \/ I90FilterErrors
    \/ I90ProcessSheet
    \/ I90Cleanup
    \/ \E day \in Days : \E unidades \in UnitSets :
          \E sentidos \in {DefaultSentidos, <<"Subir">>} :
             GetVolumenes(day, unidades, sentidos)

SpecI90 == InitI90 /\ [][NextI90]_vars

\* get_i90_data is straight-line code: once called, each of its steps is taken
SpecI90Live ==
    /\ SpecI90
    /\ WF_vars(I90FilterErrors)
    /\ WF_vars(I90ProcessSheet)
    /\ WF_vars(I90Cleanup)

(***************************************************************************)
(* The volume sheet of the tertiary regulation, read by process_sheet_v1   *)
(* and by get_volumenes.                                                   *)
(***************************************************************************)
InitVolumes ==
    /\ writer = "raw"
    /\ dataset_type = "volumenes_i90"
    /\ partition = NoPartition
    /\ call = NoCall
    /\ ConcIdle
    /\ CsvIdle
    /\ tipo_dia \in {"normal", "long"}
    /\ df_mercados = MercadosTable(FALSE)
    /\ \E formato \in {"horario", "quinceminutal"} :
          hoja \in Sheets(TerciariaSheetId, formato, tipo_dia)
    /\ sheet_call = NoSheetCall
    /\ ExtractIdle

NextVolumes ==
    \/ \E unidades \in UnitSets : \E day \in Days : ProcessSheetV1(unidades, day)
    \/ \E day \in Days : \E unidades \in UnitSets :
          \E sentidos \in {DefaultSentidos, <<"Subir">>} :
             GetVolumenes(day, unidades, sentidos)

SpecVolumes == InitVolumes /\ [][NextVolumes]_vars

(***************************************************************************)
(* The sheets of the tertiary regulation, of the curtailments, of the      *)
(* secondary regulation and of the replacement reserve, read by            *)
(* process_sheet_v1 and by the get_volumenes of their own class.  The      *)
(* sheets of the last two come with the unit column on either side of      *)
(* Total and with or without an error record of the first day.             *)
(***************************************************************************)
InitFamilies ==
    /\ writer = "raw"
    /\ dataset_type = "volumenes_i90"
    /\ partition = NoPartition
    /\ call = NoCall
    /\ ConcIdle
    /\ CsvIdle
    /\ tipo_dia = "normal"
    /\ df_mercados = MercadosTable(FALSE)
    /\ \/ \E pestana \in {CurtailmentSheetId, TerciariaSheetId} :
             /\ hoja \in FilterSheets(pestana, I90Header)
             /\ lista_errores = {}
       \/ \E pestana \in {SecundariaSheetId, RRSheetId} :
             /\ \E cabecera \in {I90Header, HeaderUnitLast} :
                   hoja \in FilterSheets(pestana, cabecera)
             /\ lista_errores \in {{}, {[fecha |-> 1, tipo_error |-> pestana]}}
    /\ sheet_call = NoSheetCall
    /\ files = {}
    /\ i90 = NoI90Call
    /\ volumenes_call = NoVolumenesCall

NextFamilies ==
    \/ \E unidades \in UnitSets : \E day \in Days : ProcessSheetV1(unidades, day)
    \/ \E day \in Days : \E unidades \in UnitSets :
          \E sentidos \in {DefaultSentidos, <<"Subir">>} :
             GetVolumenes(day, unidades, sentidos)
    \/ \E day \in Days : \E unidades \in UnitSets :
          \E tipos \in {DefaultTipos, <<"Curtailment">>} :
             CurtailmentGetVolumenes(day, unidades, tipos)
    \/ \E day \in Days : \E unidades \in UnitSets :
          \E sentidos \in {<<"Subir", "Bajar">>, <<"Bajar">>} :
             SecundariaGetVolumenes(day, unidades, sentidos)
    \/ \E day \in Days : \E unidades \in UnitSets : RRGetVolumenes(day, unidades)

SpecFamilies == InitFamilies /\ [][NextFamilies]_vars

(***************************************************************************)
(* Properties of the error table.                                          *)
(***************************************************************************)
Flagged(day, pestana) == [fecha |-> day, tipo_error |-> pestana] \in lista_errores

\* C6: when the error table flags sheet s for day D, the extraction of D does
\* not read or keep sheet s, returns nothing for it and raises no exception,
\* and the requested sheets that are not flagged are kept.
C6_ErrorSheetSkipped ==
    /\ (volumenes_call.op = "get_volumenes" /\ Flagged(volumenes_call.day, TerciariaSheetId))
         => /\ volumenes_call.results = <<>>
            /\ volumenes_call.sheets_read = {}
            /\ volumenes_call.exception = "none"
    /\ (i90.pc \in {"returned", "raised"}
          /\ \E s \in 1..Len(i90.sheets_of_interest) :
                Flagged(i90.day, IntOf(i90.sheets_of_interest[s])))
         => /\ i90.pc = "returned" /\ i90.exception = "none"
            /\ \A s \in 1..Len(i90.sheets_of_interest) :
                  LET sheet == i90.sheets_of_interest[s]
                      kept == \E k \in 1..Len(i90.result.sheets) :
                                 i90.result.sheets[k] = "I90DIA" \o sheet
                  IN kept <=> ~Flagged(i90.day, IntOf(sheet))

\* a day with sheet 7 flagged: get_i90_data has kept sheet 03 and dropped sheet
\* 07, and get_volumenes has returned nothing although the sheet has rows
C6_Witness ==
    /\ volumenes_call.op = "get_volumenes"
    /\ Flagged(volumenes_call.day, TerciariaSheetId)
    /\ \E j \in 1..Len(hoja.filas) : hoja.filas[j].UP \in volumenes_call.unidades
    /\ volumenes_call.results = <<>>
    /\ i90.pc = "returned"
    /\ i90.day = volumenes_call.day
    /\ i90.sheets_of_interest = <<"03", "07">>
    /\ i90.result.sheets = <<"I90DIA03">>

\* C7: when every requested sheet is flagged for the day, get_i90_data returns
\* an empty result with a warning and raises no exception.
C7_AllSheetsFlagged ==
    (i90.pc \in {"filtered", "processed", "returned", "raised"}
       /\ \A s \in 1..Len(i90.sheets_of_interest) :
             Flagged(i90.day, IntOf(i90.sheets_of_interest[s])))
    => /\ i90.pc = "returned"
       /\ i90.result = [kind |-> "DataFrame", sheets |-> <<>>]
       /\ i90.warning
       /\ i90.exception = "none"

\* both requested sheets were flagged and the call has returned the empty frame
C7_Witness ==
    /\ i90.pc = "returned"
    /\ i90.sheets_of_interest = <<"03", "07">>
    /\ Flagged(i90.day, 3) /\ Flagged(i90.day, 7)
    /\ i90.result.kind = "DataFrame"
    /\ i90.warning

(***************************************************************************)
(* Properties of a sheet whose period columns leave the day's grid.        *)
(***************************************************************************)
\* the markets process_sheet_v1 takes from the table for the sheet read
OnSheet(j) ==
    IF hoja.pestana \in pestanas_volumenes
    THEN df_mercados[j].sheet_i90_volumenes = hoja.pestana
    ELSE df_mercados[j].sheet_i90_precios = hoja.pestana

\* the rows of the sheet that are the input of the j-th market of the table
MarketFrame(j) ==
    CodeFilter(DirectionFilter(SelectSeq(hoja.filas, LAMBDA r : r.UP \in sheet_call.unidades),
                               df_mercados[j]),
               zfill2(hoja.pestana), df_mercados[j])

OffGrid ==
    \E p \in Labels(hoja) : p \notin 1..NumPeriodos(HoraFormato(hoja), tipo_dia)

\* C11: when a period column of the sheet is outside the valid range of its
\* granularity and day classification (hourly 25 on a normal day,
\* quarter-hourly 97, 0), the call raises MappingError as soon as a market has
\* rows to map, and no row is returned for any period.
C11_OffGridPeriodRaises ==
    (sheet_call.op = "process_sheet_v1" /\ OffGrid)
    => /\ sheet_call.results = <<>>
       /\ (\E j \in 1..Len(df_mercados) : OnSheet(j) /\ MarketFrame(j) # <<>>)
            => sheet_call.exception = "MappingError"

\* a normal day's hourly sheet with a 25th period column has raised
C11_Witness ==
    /\ sheet_call.op = "process_sheet_v1"
    /\ tipo_dia = "normal" /\ hoja.formato = "horario"
    /\ Labels(hoja) = 1..25
    /\ hoja.filas # <<>>
    /\ sheet_call.exception = "MappingError"

(***************************************************************************)
(* Properties of the row and column filters.                               *)
(***************************************************************************)
\* the rows of the sheet read for the units asked for
UnitRows == SelectSeq(hoja.filas, LAMBDA r : r.UP \in sheet_call.unidades)

MarketById(id) == df_mercados[CHOOSE j \in 1..Len(df_mercados) : df_mercados[j].id = id]

CountOf(df, r) == Cardinality({i \in 1..Len(df) : df[i] = r})

\* kept holds the rows of input that satisfy Keep, each as often as input does,
\* and no other row
KeptExactly(kept, input, Keep(_)) ==
    \A r \in Range(input) \cup Range(kept) :
        CountOf(kept, r) = IF Keep(r) THEN CountOf(input, r) ELSE 0

\* C12: a market whose direction is Subir keeps exactly the rows whose
\* direction is Subir, a Bajar market exactly the Bajar rows, a market of no
\* direction the rows of every direction.
C12_DirectionFilter ==
    SheetProcessed
    => \A k \in 1..Len(sheet_call.frames) :
          LET sentido == MarketById(sheet_call.frames[k].id).sentido
          IN KeptExactly(sheet_call.frames[k].direction, UnitRows,
                         LAMBDA r : IF sentido = "Subir" THEN r.Sentido = "Subir"
                                    ELSE IF sentido = "Bajar" THEN r.Sentido = "Bajar"
                                    ELSE TRUE)

\* a sheet with rows of both directions went through a Subir market, a Bajar
\* market and a market of no direction
C12_Witness ==
    /\ SheetProcessed
    /\ \E i, j \in 1..Len(UnitRows) :
          UnitRows[i].Sentido = "Subir" /\ UnitRows[j].Sentido = "Bajar"
    /\ \E a, b, c \in 1..Len(sheet_call.frames) :
          /\ MarketById(sheet_call.frames[a].id).sentido = "Subir"
          /\ MarketById(sheet_call.frames[b].id).sentido = "Bajar"
          /\ MarketById(sheet_call.frames[c].id).sentido \notin {"Subir", "Bajar"}
          /\ Len(sheet_call.frames[a].direction) = 1
          /\ Len(sheet_call.frames[b].direction) = 1
          /\ Len(sheet_call.frames[c].direction) = 2

\* the rule group of a market on sheets 07, 08 and 10
RuleGroup(mercado) ==
    IF hoja.pestana = 7
    THEN (IF mercado.mercado \in {"Terciaria a subir", "Terciaria a bajar"}
          THEN "not TERDIR" ELSE "TERDIR")
    ELSE (IF mercado.mercado = "Indisponibilidades"
          THEN "Indisponibilidad" ELSE "Restricciones Técnicas")

KeptByGroup(group, r) ==
    IF group = "not TERDIR" THEN r.Redespacho # "TERDIR" ELSE r.Redespacho = group

\* C13: on sheet 07 the tertiary up and down markets keep the rows whose code
\* is not TERDIR and every other market the rows whose code is TERDIR; on
\* sheets 08 and 10 Indisponibilidades keeps the rows coded Indisponibilidad
\* and every other market the rows coded Restricciones Técnicas; two markets
\* of different rule groups never keep the same row.
C13_CodeRuleBySheetAndMarket ==
    (SheetProcessed /\ hoja.pestana \in {7, 8, 10})
    => /\ \A k \in 1..Len(sheet_call.frames) :
             LET group == RuleGroup(MarketById(sheet_call.frames[k].id))
             IN KeptExactly(sheet_call.frames[k].rows, sheet_call.frames[k].direction,
                            LAMBDA r : KeptByGroup(group, r))
       /\ \A j, k \in 1..Len(sheet_call.frames) :
             RuleGroup(MarketById(sheet_call.frames[j].id))
                # RuleGroup(MarketById(sheet_call.frames[k].id))
             => Range(sheet_call.frames[j].rows) \cap Range(sheet_call.frames[k].rows) = {}

\* two markets of different rule groups on one sheet have each kept a row
C13_Witness ==
    /\ SheetProcessed /\ hoja.pestana \in {7, 8, 10}
    /\ \E j, k \in 1..Len(sheet_call.frames) :
          /\ RuleGroup(MarketById(sheet_call.frames[j].id))
                # RuleGroup(MarketById(sheet_call.frames[k].id))
          /\ sheet_call.frames[j].rows # <<>>
          /\ sheet_call.frames[k].rows # <<>>

CurtailmentMarkets == {"Curtailment", "Curtailment demanda"}

RT2Markets == {"RT2 a subir", "RT2 a bajar"}

\* C14: on sheet 03 the curtailment markets keep exactly the rows coded
\* UPLPVPV, UPLPVPCBN or UPOPVPB, the RT2 markets exactly the rows coded
\* ECOBSO or ECOBCBSO, and no row is kept by both groups.
C14_Sheet03Codes ==
    (SheetProcessed /\ hoja.pestana = 3)
    => /\ \A k \in 1..Len(sheet_call.frames) :
             LET mercado == MarketById(sheet_call.frames[k].id).mercado
             IN /\ mercado \in CurtailmentMarkets
                     => KeptExactly(sheet_call.frames[k].rows, sheet_call.frames[k].direction,
                                    LAMBDA r : r.Redespacho \in {"UPLPVPV", "UPLPVPCBN", "UPOPVPB"})
                /\ mercado \in RT2Markets
                     => KeptExactly(sheet_call.frames[k].rows, sheet_call.frames[k].direction,
                                    LAMBDA r : r.Redespacho \in {"ECOBSO", "ECOBCBSO"})
       /\ \A j, k \in 1..Len(sheet_call.frames) :
             (/\ MarketById(sheet_call.frames[j].id).mercado \in CurtailmentMarkets
              /\ MarketById(sheet_call.frames[k].id).mercado \in RT2Markets)
             => Range(sheet_call.frames[j].rows) \cap Range(sheet_call.frames[k].rows) = {}

\* a sheet 03 with a curtailment of demand and a direct activation: each group
\* has kept its row
C14_Witness ==
    /\ SheetProcessed /\ hoja.pestana = 3
    /\ \E j, k \in 1..Len(sheet_call.frames) :
          /\ MarketById(sheet_call.frames[j].id).mercado \in CurtailmentMarkets
          /\ MarketById(sheet_call.frames[k].id).mercado \in RT2Markets
          /\ \E i \in 1..Len(sheet_call.frames[j].rows) :
                sheet_call.frames[j].rows[i].Redespacho = "UPOPVPB"
          /\ \E i \in 1..Len(sheet_call.frames[k].rows) :
                sheet_call.frames[k].rows[i].Redespacho = "ECOBSO"

UnitLeftOfTotal ==
    /\ ColumnIndex(hoja.cabecera, "Unidad de Programación") > 0
    /\ ColumnIndex(hoja.cabecera, "Unidad de Programación")
          < ColumnIndex(hoja.cabecera, "Total")

\* the frame of every market has the unit column and the period columns alone
OnlyUnitAndPeriods ==
    /\ sheet_call.exception = "none"
    /\ sheet_call.columns # <<>>
    /\ \A k \in 1..Len(sheet_call.columns) :
          sheet_call.columns[k] = <<"Unidad de Programación">>
    /\ \A i \in 1..Len(sheet_call.hora) : DOMAIN sheet_call.hora[i] = Labels(hoja)

\* C15 as stated: whatever the place of the unit column and of Total, the
\* frame of a market is narrowed to the unit column and the period columns
\* right of Total.
C15_ColumnsNarrowed ==
    sheet_call.op = "process_sheet_v1" => OnlyUnitAndPeriods

\* C15 amended: with the unit column left of Total the frame of a market is
\* narrowed to the unit column and the period columns right of Total; with
\* the unit column right of Total the call raises ValueError.
C15_ColumnsNarrowedUnitLeft ==
    sheet_call.op = "process_sheet_v1"
    => IF UnitLeftOfTotal THEN OnlyUnitAndPeriods
       ELSE sheet_call.exception = "ValueError" /\ sheet_call.results = <<>>

\* a sheet whose unit column is second of four has been narrowed and has
\* produced a series
C15_Witness ==
    /\ sheet_call.op = "process_sheet_v1"
    /\ hoja.cabecera = <<"Sentido", "Unidad de Programación", "Redespacho", "Total">>
    /\ OnlyUnitAndPeriods
    /\ \E i \in 1..Len(sheet_call.results) : sheet_call.results[i].df # {}

\* the rows returned for the j-th market of the table
RowsOfMarket(j) ==
    UNION {sheet_call.results[i].df :
             i \in {x \in 1..Len(sheet_call.results) :
                      sheet_call.results[x].mercado = Lower(df_mercados[j].mercado)}}

\* C16: a market none of whose rows pass its direction and code filters gets
\* no rows and the call raises nothing; the other markets of the sheet get
\* the series of their rows.
C16_EmptyMarketIsNotAnError ==
    sheet_call.op = "process_sheet_v1"
    => /\ sheet_call.exception = "none"
       /\ \A j \in 1..Len(df_mercados) :
             OnSheet(j) => (RowsOfMarket(j) = {} <=> MarketFrame(j) = <<>>)

\* one market of the sheet had no rows, another has its series
C16_Witness ==
    /\ sheet_call.op = "process_sheet_v1"
    /\ sheet_call.exception = "none"
    /\ \E j, k \in 1..Len(df_mercados) :
          /\ OnSheet(j) /\ OnSheet(k)
          /\ MarketFrame(j) = <<>> /\ RowsOfMarket(j) = {}
          /\ MarketFrame(k) # <<>> /\ RowsOfMarket(k) # {}

(***************************************************************************)
(* Properties of the aggregation.                                          *)
(***************************************************************************)
\* the rows of the i-th result for a unit and a time of day
RowsAt(i, up, h) == {r \in sheet_call.results[i].df : r.UP = up /\ r.hora = h}

\* the sum and the number of the source values of a unit mapped to a time
SourceSum(i, up, h) == SumRows(ResultFrame(i), up, PeriodsOf(sheet_call.hora[i], h))

SourceCount(i, up, h) ==
    CountRows(ResultFrame(i), up) * Cardinality(PeriodsOf(sheet_call.hora[i], h))

\* C17: for a price market every (unit, time) of the series has one row, its
\* value the mean of the source values mapped to it rounded to 3 decimals
\* (10.1 and 10.3 give 10.200), also when that mean is zero.
C17_PriceIsRoundedMean ==
    (SheetProcessed /\ hoja.pestana \notin pestanas_volumenes)
    => \A i \in 1..Len(sheet_call.results) :
          /\ sheet_call.results[i].is_precio
          /\ \A up \in UnitsOf(ResultFrame(i)) : \A h \in Range(sheet_call.hora[i]) :
                /\ Cardinality(RowsAt(i, up, h)) = 1
                /\ \A r \in RowsAt(i, up, h) :
                      /\ IsMeanTo3Decimals(r.valor, SourceSum(i, up, h), SourceCount(i, up, h))
                      /\ (SourceSum(i, up, h) = 204000 /\ SourceCount(i, up, h) = 2)
                            => r.valor = 102000

\* two rows of a unit hold 10.1 and 10.3 in the same hour and the series has
\* 10.200 there, and a row of value zero elsewhere
C17_Witness ==
    /\ SheetProcessed /\ hoja.pestana \notin pestanas_volumenes
    /\ \E i \in 1..Len(sheet_call.results) : \E up \in UnitsOf(ResultFrame(i)) :
          /\ \E h \in Range(sheet_call.hora[i]) :
                /\ SourceSum(i, up, h) = 204000 /\ SourceCount(i, up, h) = 2
                /\ \E r \in RowsAt(i, up, h) : r.valor = 102000
          /\ \E h \in Range(sheet_call.hora[i]) : \E r \in RowsAt(i, up, h) : r.valor = 0

\* the hora column get_volumenes gives the sheet read
VolumenHora ==
    [p \in Labels(hoja) |->
        IF HoraFormato(hoja) = "quinceminutal"
        THEN ajuste_quinceminutal(p, tipo_dia # "normal", hour_offset(tipo_dia))
        ELSE ajuste_horario(p, tipo_dia # "normal", hour_offset(tipo_dia))]

\* the rows of the sheet that are the input of the i-th result of get_volumenes
VolumenFrame(i) ==
    SentidoFilter(SelectSeq(hoja.filas, LAMBDA r : r.UP \in volumenes_call.unidades),
                  volumenes_call.results[i].sentido)

VolumenRowsAt(i, up, h) ==
    {r \in volumenes_call.results[i].df : r.UP = up /\ r.hora = h}

\* C18: for a volume market every row of the series holds the sum of the
\* source values mapped to its (unit, time), no row holds zero, and a pair
\* whose values sum to zero (5 and -5) has no row; in process_sheet_v1 and in
\* get_volumenes alike.
C18_VolumeIsSumWithoutZero ==
    /\ (SheetProcessed /\ hoja.pestana \in pestanas_volumenes)
         => \A i \in 1..Len(sheet_call.results) :
               /\ ~sheet_call.results[i].is_precio
               /\ \A r \in sheet_call.results[i].df : r.valor # 0
               /\ \A up \in UnitsOf(ResultFrame(i)) : \A h \in Range(sheet_call.hora[i]) :
                     \E total \in {SourceSum(i, up, h)} :
                        IF total = 0
                        THEN RowsAt(i, up, h) = {}
                        ELSE /\ Cardinality(RowsAt(i, up, h)) = 1
                             /\ \A r \in RowsAt(i, up, h) : r.valor = total
    /\ (volumenes_call.op = "get_volumenes" /\ volumenes_call.exception = "none")
         => \A i \in 1..Len(volumenes_call.results) :
               /\ \A r \in volumenes_call.results[i].df : r.volumen # 0
               /\ \E hora \in {VolumenHora} : \E frame \in {VolumenFrame(i)} :
                     \A up \in UnitsOf(frame) : \A h \in Range(hora) :
                        \E total \in {SumRows(frame, up, PeriodsOf(hora, h))} :
                           IF total = 0
                           THEN VolumenRowsAt(i, up, h) = {}
                           ELSE /\ Cardinality(VolumenRowsAt(i, up, h)) = 1
                                /\ \A r \in VolumenRowsAt(i, up, h) : r.volumen = total

\* a unit holds 5 and -5 in one hour and 10.1 in another: both calls have
\* returned the 10.1 and nothing for the hour of the 5 and -5
C18_Witness ==
    /\ SheetProcessed /\ hoja.pestana \in pestanas_volumenes
    /\ volumenes_call.op = "get_volumenes"
    /\ \E i \in 1..Len(sheet_call.results) : \E up \in UnitsOf(ResultFrame(i)) :
          \E h \in Range(sheet_call.hora[i]) :
             /\ \E j, k \in 1..Len(ResultFrame(i)) : \E p, q \in PeriodsOf(sheet_call.hora[i], h) :
                   /\ ResultFrame(i)[j].UP = up /\ ResultFrame(i)[k].UP = up
                   /\ Cell(ResultFrame(i)[j], p) = 50000
                   /\ Cell(ResultFrame(i)[k], q) = -50000
             /\ RowsAt(i, up, h) = {}
    /\ \E i \in 1..Len(volumenes_call.results) : \E up \in UnitsOf(VolumenFrame(i)) :
          \E h \in Range(VolumenHora) :
             /\ \E j, k \in 1..Len(VolumenFrame(i)) : \E p, q \in PeriodsOf(VolumenHora, h) :
                   /\ VolumenFrame(i)[j].UP = up /\ VolumenFrame(i)[k].UP = up
                   /\ Cell(VolumenFrame(i)[j], p) = 50000
                   /\ Cell(VolumenFrame(i)[k], q) = -50000
             /\ VolumenRowsAt(i, up, h) = {}

\* C19: a series has at most one row for a unit and a time of day, whatever
\* the sheet and the day.
C19_OneRowPerUnitAndTime ==
    SheetProcessed
    => \A i \in 1..Len(sheet_call.results) :
          \A r1, r2 \in sheet_call.results[i].df :
             (r1.UP = r2.UP /\ r1.hora = r2.hora) => r1 = r2

\* on a long day two source rows of one unit hold values in the two periods
\* of the transition hour, and the series has one row there
C19_Witness ==
    /\ SheetProcessed /\ tipo_dia = "long" /\ hoja.formato = "horario"
    /\ \E i \in 1..Len(sheet_call.results) :
          \E j, k \in 1..Len(ResultFrame(i)) :
             /\ j # k
             /\ ResultFrame(i)[j].UP = ResultFrame(i)[k].UP
             /\ Cell(ResultFrame(i)[j], TransitionHour + 1) # 0
             /\ Cell(ResultFrame(i)[k], TransitionHour + 2) # 0
             /\ Cardinality(RowsAt(i, ResultFrame(i)[j].UP, 60 * TransitionHour)) = 1

(***************************************************************************)
(* Failures of the store.                                                  *)
(***************************************************************************)
\* C20: when the read, the merge or the persisting of an existing partition
\* fails inside a store write, the call ends with that same exception: it
\* does not return normally, and it does not end with the result a second
\* attempt would have had.
C20_FailureReraisedOnce ==
    (call.op \in {"write_raw_parquet", "write_processed_parquet"}
        /\ call.found /\ call.failure # "none")
    => /\ call.outcome = call.failure
       /\ Raised(call.outcome)

\* a write of the raw store has found the partition, the file system has
\* failed it, and the caller has the OSError
C20_Witness ==
    /\ call.op = "write_raw_parquet"
    /\ call.found /\ call.failure = "OSError" /\ call.outcome = "OSError"
    /\ partition.exists /\ partition.rows # <<>>

(***************************************************************************)
(* Properties of a day's extraction.                                       *)
(***************************************************************************)
\* the requested sheets that the error table does not flag for the day
ValidSheetsOf(day, sheets_of_interest) ==
    SelectSeq(sheets_of_interest, LAMBDA s : ~Flagged(day, IntOf(s)))

\* the day of the call has no record in the error table
NoErrorRecord(day) == \A e \in lista_errores : e.fecha # day

\* C22: get_i90_data hands to process_sheet exactly the requested sheets that
\* are not flagged for the day, and on a day with no error record it processes
\* every requested sheet and returns without an exception.
C22_ValidSheetsProcessed ==
    /\ i90.pc \in {"processed", "returned", "raised"}
         => /\ i90.exception = "none"
            /\ i90.valid_sheets.sheets = ValidSheetsOf(i90.day, i90.sheets_of_interest)
    /\ (i90.pc \in {"processed", "returned", "raised"} /\ NoErrorRecord(i90.day))
         => /\ i90.pc # "raised"
            /\ i90.result = [kind |-> "ExcelFile",
                             sheets |-> process_sheet(i90.sheets_of_interest)]

\* C24: a day's extraction that has started always ends by returning, with
\* the collected result or with the empty result of a day whose requested
\* sheets are all flagged, and sheets are processed only after the error
\* table has been consulted.
C24_ExtractionTerminates ==
    /\ (i90.pc = "requested") ~> (i90.pc = "returned")
    /\ [](i90.pc = "processed" => i90.valid_sheets.bound)

\* C26: whenever get_i90_data has returned, the early return of a day whose
\* requested sheets are all flagged included, the day's archive and workbook
\* are gone.
C26_ReturnAfterCleanup ==
    (i90.pc = "returned" /\ volumenes_call.op = "none")
    => /\ TempFile("zip", i90.day) \notin files
       /\ TempFile("xls", i90.day) \notin files

(***************************************************************************)
(* Properties of the results collected for a sheet.                        *)
(***************************************************************************)
\* the results of the call that carry the name of the j-th market of the table
TuplesOfMarket(j) ==
    {i \in 1..Len(sheet_call.results) :
        sheet_call.results[i].mercado = Lower(df_mercados[j].mercado)}

\* C23: for a sheet that is read, process_sheet_v1 returns exactly one tuple
\* (series, market name, value kind) for every market of the table that is on
\* the sheet, the markets whose series is empty included, and no other tuple.
C23_OneTuplePerMarket ==
    SheetProcessed
    => /\ \A j \in 1..Len(df_mercados) :
             OnSheet(j) => /\ Cardinality(TuplesOfMarket(j)) = 1
                           /\ \A i \in TuplesOfMarket(j) :
                                 sheet_call.results[i].is_precio
                                    = (hoja.pestana \notin pestanas_volumenes)
       /\ Len(sheet_call.results) = Cardinality({j \in 1..Len(df_mercados) : OnSheet(j)})

(***************************************************************************)
(* Properties of the directions of the tertiary regulation.                *)
(***************************************************************************)
\* the rows of the sheet get_volumenes works on
VolumenUnitRows == SelectSeq(hoja.filas, LAMBDA r : r.UP \in volumenes_call.unidades)

\* the volume the results of a direction hold for a unit and a time of day
VolumenOf(sentido, up, h) ==
    LET held == {r \in UNION {volumenes_call.results[i].df :
                                 i \in {x \in 1..Len(volumenes_call.results) :
                                          volumenes_call.results[x].sentido = sentido}} :
                    r.UP = up /\ r.hora = h}
    IN IF held = {} THEN 0 ELSE (CHOOSE r \in held : TRUE).volumen

\* the one result a row belongs to
ResultOfRow(r) == IF r.Redespacho = "TERDIR" THEN "Directa" ELSE r.Sentido

\* C29: in get_volumenes with the default directions every row of the units
\* whose direction is Subir or Bajar is counted in exactly one of the results
\* Subir, Bajar, Directa: a row coded TERDIR in Directa alone, whatever its
\* direction, and every other row in the result of its own direction alone.
C29_RowInOneDirection ==
    (/\ volumenes_call.op = "get_volumenes"
     /\ volumenes_call.sentidos = DefaultSentidos
     /\ ~Flagged(volumenes_call.day, TerciariaSheetId))
    => /\ volumenes_call.exception = "none"
       /\ \A i, j \in 1..Len(volumenes_call.results) :
             volumenes_call.results[i].sentido = volumenes_call.results[j].sentido => i = j
       /\ \E hora \in {VolumenHora} :
             \A s \in Range(DefaultSentidos) :
                \E own \in {SelectSeq(VolumenUnitRows, LAMBDA r : ResultOfRow(r) = s)} :
                   \A up \in volumenes_call.unidades : \A h \in Range(hora) :
                      VolumenOf(s, up, h) = SumRows(own, up, PeriodsOf(hora, h))

\* a unit has a Bajar row coded TERDIR and a Bajar row of another code in
\* the same hour: Directa holds the first alone and Bajar the second alone
C29_Witness ==
    /\ volumenes_call.op = "get_volumenes"
    /\ volumenes_call.sentidos = DefaultSentidos
    /\ ~Flagged(volumenes_call.day, TerciariaSheetId)
    /\ Len(VolumenUnitRows) = 2
    /\ \E i, j \in 1..Len(VolumenUnitRows) : \E p \in Labels(hoja) :
          LET a == VolumenUnitRows[i]
              b == VolumenUnitRows[j]
          IN /\ a.UP = b.UP /\ a.Sentido = "Bajar" /\ b.Sentido = "Bajar"
             /\ a.Redespacho = "TERDIR" /\ b.Redespacho # "TERDIR"
             /\ Cell(a, p) # 0 /\ Cell(b, p) # 0
             /\ VolumenOf("Directa", a.UP, VolumenHora[p]) = Cell(a, p)
             /\ VolumenOf("Bajar", a.UP, VolumenHora[p]) = Cell(b, p)
             /\ VolumenOf("Subir", a.UP, VolumenHora[p]) = 0

(***************************************************************************)
(* The two readings of the curtailment sheet.                              *)
(***************************************************************************)
\* C30: for the same rows of sheet 03, the same units and the same market name
\* ('Curtailment' or 'Curtailment demanda'), process_sheet_v1 and
\* CurtailmentVolumenDL.get_volumenes select the same rows.
C30_CurtailmentPathsAgree ==
    (/\ SheetProcessed /\ hoja.pestana = CurtailmentSheetId
     /\ volumenes_call.op = "curtailment_get_volumenes"
     /\ volumenes_call.exception = "none"
     /\ volumenes_call.unidades = sheet_call.unidades)
    => \A k \in 1..Len(sheet_call.frames) : \A f \in 1..Len(volumenes_call.frames) :
          MarketById(sheet_call.frames[k].id).mercado = volumenes_call.frames[f].nombre
             => sheet_call.frames[k].rows = volumenes_call.frames[f].rows

(***************************************************************************)
(* C28: a merge-on-write never removes an existing row whose               *)
(* deduplication key does not occur in the incoming data: after a          *)
(* successful write every row the partition held before the call, whose    *)
(* key no incoming row has, is still in the partition with the same values.*)
(***************************************************************************)
KeyIncoming(r, df) ==
    \E j \in 1..Len(df) : SubsetKey(df[j], dataset_type) = SubsetKey(r, dataset_type)

C28_MergeKeepsOtherKeys ==
    [][(call'.op = "write_raw_parquet" /\ call'.outcome = "updated")
        => \A i \in 1..Len(partition.rows) :
              ~KeyIncoming(partition.rows[i], call'.df)
              => \E k \in 1..Len(partition'.rows) :
                    partition'.rows[k] = partition.rows[i]]_vars

(***************************************************************************)
(* C27: a store write that fails at any step of its read, merge, delete    *)
(* and persist cycle leaves the persisted partition as it was before the   *)
(* call.                                                                   *)
(***************************************************************************)
C27_FailedWriteLeavesPartition ==
    [][(call'.op # "none" /\ Raised(call'.outcome)) => partition' = partition]_vars

(***************************************************************************)
(* parquets_procesamiento.py: CSV files of a raw directory are saved as    *)
(* parquet files of a processed directory.  A frame is its set of columns  *)
(* and its rows; a datetime read from a CSV file is text.  All datetimes   *)
(* lie in one month, so a parquet file is named by data type and market.   *)
(***************************************************************************)
CsvRow(t, v) == [datetime |-> PartitionText(t), valor |-> v]

\* two rows of one datetime and a row of a later one
CsvRows == {CsvRow(1, 10), CsvRow(1, 20), CsvRow(2, 10)}

AllColumns == {"datetime", "valor"}

\* a frame without the datetime column: the datetime of its row is not read
NoDatetimeFrame == [columns |-> {"valor"}, rows |-> <<CsvRow(1, 10)>>]

CsvFrames ==
    {[columns |-> AllColumns, rows |-> rows] : rows \in SeqsUpTo(CsvRows, MaxCsvRows)}
        \cup {NoDatetimeFrame}

\* parquets_procesamiento.py:59
valid_types_parquet == {"volumenes", "precios", "ingresos"}

\* pd.to_datetime of a datetime column: text is parsed into a timestamp
to_datetime(rows) ==
    [i \in 1..Len(rows) |-> [rows[i] EXCEPT !.datetime = Timestamp(rows[i].datetime.t)]]

\* drop_duplicates(subset=['datetime'], keep='last')
RECURSIVE DropDatetimeKeepLast(_)
DropDatetimeKeepLast(rows) ==
    IF rows = <<>> THEN <<>>
    ELSE LET rest == Tail(rows)
         IN (IF \E j \in 1..Len(rest) : rest[j].datetime = Head(rows).datetime
             THEN <<>> ELSE <<Head(rows)>>)
            \o DropDatetimeKeepLast(rest)

\* sort_values('datetime'): ascending instants
RECURSIVE SortByDatetime(_)
SortByDatetime(rows) ==
    IF rows = <<>> THEN <<>>
    ELSE LET first == CHOOSE i \in 1..Len(rows) :
                         /\ \A j \in 1..Len(rows) : rows[i].datetime.t <= rows[j].datetime.t
                         /\ \A j \in 1..(i - 1) : rows[j].datetime.t > rows[i].datetime.t
         IN <<rows[first]>>
            \o SortByDatetime(SubSeq(rows, 1, first - 1) \o SubSeq(rows, first + 1, Len(rows)))

\* f"{data_type}_{mercado}.parquet" in the month directory
ParquetName(data_type, mercado) == <<data_type, mercado>>

\* df.to_parquet(processed_file_path) of the whole frame
SaveFile(processed, name, frame) == (name :> frame) @@ processed

(***************************************************************************)
(* process_and_save_parquet, as the result of one whole call: the          *)
(* processed directory after it and how the call ended.                    *)
(***************************************************************************)
process_and_save_parquet(processed, df, data_type, mercado) ==
    LET name == ParquetName(data_type, mercado)
    IN IF data_type \notin valid_types_parquet
       THEN [processed |-> processed, outcome |-> "ValueError"]
       ELSE IF name \in DOMAIN processed
            THEN LET existing_df == processed[name]
                 IN IF "datetime" \in df.columns /\ "datetime" \in existing_df.columns
                    THEN LET combined_df == to_datetime(existing_df.rows) \o to_datetime(df.rows)
                             kept == SortByDatetime(DropDatetimeKeepLast(combined_df))
                         IN [processed |->
                                SaveFile(processed, name,
                                         [columns |-> existing_df.columns \cup df.columns,
                                          rows |-> kept]),
                             outcome |-> "updated"]
                    ELSE [processed |-> processed, outcome |-> "ValueError"]
            ELSE [processed |-> SaveFile(processed, name, df), outcome |-> "created"]

ProcessAndSaveParquet(df, data_type, mercado) ==
    LET r == process_and_save_parquet(processed_files, df, data_type, mercado)
    IN /\ processed_files' = r.processed
       /\ parquet_call' = [op |-> "process_and_save_parquet", outcome |-> r.outcome,
                           bad_files |-> {}, saved |-> {}, returned |-> "none"]
       /\ UNCHANGED <<raw_dir, storeVars, concVars, sheetVars, extractVars>>

(***************************************************************************)
(* process_parquet_files.  A CSV file is its stem, as the parts an         *)
(* underscore separates, and the frame pd.read_csv makes of its bytes: no  *)
(* columns at all for a file of no bytes.                                  *)
(***************************************************************************)
\* a file of no bytes, a file of a header line only, a file without the
\* datetime column, files of one row
CsvContents ==
    {[columns |-> {}, rows |-> <<>>], [columns |-> AllColumns, rows |-> <<>>], NoDatetimeFrame}
        \cup {[columns |-> AllColumns, rows |-> <<r>>] : r \in CsvRows}

CsvFiles ==
    {[stem |-> stem, df |-> df] :
        stem \in {<<"volumenes", "secundaria">>, <<"demanda", "secundaria">>, <<"precios">>},
        df \in CsvContents}

\* the directories glob can list: one file per name
RawDirs ==
    {d \in SUBSET CsvFiles :
        /\ Cardinality(d) <= MaxCsvFiles
        /\ \A f, g \in d : f.stem = g.stem => f = g}

\* the parameters of process_and_save_parquet (lines 35-42) and the keywords
\* the call of lines 153-160 passes
SaveParameters == {"df", "data_type", "mercado", "year", "month", "processed_path"}

SaveKeywords == {"df", "data_type", "market", "year", "month", "processed_path"}

\* Python binds keyword arguments by name: an unknown keyword or a missing
\* parameter raises TypeError before the body runs
BindRaises(keywords, parameters) == keywords # parameters

\* pd.read_csv raises EmptyDataError, a ValueError, on a file of no bytes;
\* line 131 raises ValueError on a frame of no rows
ReadRaises(file) == file.df.columns = {} \/ file.df.rows = <<>>

\* One turn of the loop of lines 125-178 on one file: the processed directory
\* after it, the exception that ended the turn and whether the file was
\* appended to bad_files.
process_file(processed, file) ==
    IF ReadRaises(file)
    THEN [processed |-> processed, exception |-> "ValueError", bad |-> TRUE, saved |-> FALSE]
    ELSE IF "datetime" \notin file.df.columns
    THEN [processed |-> processed, exception |-> "ValueError", bad |-> FALSE, saved |-> FALSE]
    ELSE IF Len(file.stem) < 2
    THEN [processed |-> processed, exception |-> "IndexError", bad |-> TRUE, saved |-> FALSE]
    ELSE IF BindRaises(SaveKeywords, SaveParameters)
    THEN [processed |-> processed, exception |-> "TypeError", bad |-> TRUE, saved |-> FALSE]
    ELSE LET r == process_and_save_parquet(processed, file.df, file.stem[1], file.stem[2])
         IN IF r.outcome = "ValueError"
            THEN [processed |-> processed, exception |-> "ValueError",
                  bad |-> FALSE, saved |-> FALSE]
            ELSE [processed |-> r.processed, exception |-> "none",
                  bad |-> FALSE, saved |-> TRUE]

\* the loop over the files glob lists, in the order it lists them
RECURSIVE process_loop(_, _)
process_loop(todo, acc) ==
    IF todo = {} THEN acc
    ELSE LET file == CHOOSE f \in todo : TRUE
             r == process_file(acc.processed, file)
         IN process_loop(todo \ {file},
                [processed |-> r.processed,
                 bad_files |-> IF r.bad THEN acc.bad_files \cup {file.stem} ELSE acc.bad_files,
                 saved |-> IF r.saved THEN acc.saved \cup {file.stem} ELSE acc.saved,
                 raised |-> IF r.exception = "none" THEN acc.raised
                            ELSE acc.raised \cup {r.exception}])

\* process_parquet_files, as the result of one whole call
process_parquet_files(dir, processed, remove) ==
    LET r == process_loop(dir, [processed |-> processed, bad_files |-> {}, saved |-> {},
                                raised |-> {}])
    IN [processed |-> r.processed,
        raw_dir |-> IF remove THEN {f \in dir : f.stem \notin r.saved} ELSE dir,
        bad_files |-> r.bad_files,
        saved |-> r.saved,
        raised |-> r.raised,
        returned |-> IF r.bad_files # {} THEN "list" ELSE "None"]

ProcessParquetFiles(remove) ==
    LET r == process_parquet_files(raw_dir, processed_files, remove)
    IN /\ raw_dir' = r.raw_dir
       /\ processed_files' = r.processed
       /\ parquet_call' = [op |-> "process_parquet_files",
                           outcome |-> IF r.raised = {} THEN "none" ELSE "caught",
                           bad_files |-> r.bad_files, saved |-> r.saved,
                           returned |-> r.returned]
       /\ UNCHANGED <<storeVars, concVars, sheetVars, extractVars>>

InitParquet ==
    /\ writer = "raw"
    /\ dataset_type = "precios"
    /\ partition = NoPartition
    /\ call = NoCall
    /\ ConcIdle
    /\ SheetIdle
    /\ ExtractIdle
    /\ raw_dir \in RawDirs
    /\ processed_files = <<>>
    /\ parquet_call = NoParquetCall

NextParquet ==
    \/ \E df \in CsvFrames, dt \in {"volumenes", "demanda"} :
          ProcessAndSaveParquet(df, dt, "secundaria")
    \/ \E remove \in BOOLEAN : ProcessParquetFiles(remove)

SpecParquet == InitParquet /\ [][NextParquet]_vars

(***************************************************************************)
(* C25: after any sequence of process_and_save_parquet calls for one data  *)
(* type, market and month, the first call that creates the file included,  *)
(* the stored file has at most one row per datetime value and its rows     *)
(* are sorted by ascending datetime.                                       *)
(***************************************************************************)
OneRowPerDatetime(rows) ==
    \A i, j \in 1..Len(rows) : rows[i].datetime.t = rows[j].datetime.t => i = j

AscendingDatetime(rows) ==
    \A i, j \in 1..Len(rows) : i < j => rows[i].datetime.t <= rows[j].datetime.t

C25_FileDedupedAndSorted ==
    \A name \in DOMAIN processed_files :
        "datetime" \in processed_files[name].columns
        => /\ OneRowPerDatetime(processed_files[name].rows)
           /\ AscendingDatetime(processed_files[name].rows)

(***************************************************************************)
(* C21: process_parquet_files returns the list of exactly the CSV files    *)
(* of the raw directory that were not processed: every file with rows and  *)
(* a datetime column is saved to the processed store and absent from the   *)
(* list, and every file that is empty, lacks a datetime column or fails    *)
(* while being saved is in the list.                                       *)
(***************************************************************************)
Processable(file) == file.df.rows # <<>> /\ "datetime" \in file.df.columns

C21_ReturnsUnprocessedFiles ==
    [][parquet_call'.op = "process_parquet_files"
        => \A file \in raw_dir :
              /\ Processable(file)
                 => (file.stem \in parquet_call'.saved
                     /\ file.stem \notin parquet_call'.bad_files)
              /\ ~Processable(file)
                 => file.stem \in parquet_call'.bad_files]_vars

====
